---- MODULE Spec2Model ----
(***************************************************************************)
(* Model of one HIVE node (SimpleHiveP2P + KnowledgeManager) of the        *)
(* voyagerAIFramework repository.  The node under study runs the code of   *)
(* src/unnamed/part_005 and src/src/agents/apollo/services/knowledge.js;   *)
(* the remote peers are the environment: they open sockets to the node,    *)
(* accept the node's sockets and send it protocol messages.                *)
(*                                                                         *)
(* JavaScript values that flow through promises are encoded as strings:    *)
(* "undefined", "null", "[]", "[e1]", "[e2]" (arrays of entities) and      *)
(* "R1" (a query result object); "pending" is an unsettled promise.        *)
(***************************************************************************)
EXTENDS Integers, Sequences, FiniteSets, TLC

\* ------------------------------------------------------------------ bounds
MaxCalls == 1
MaxConcurrentCalls == 2
MaxHandshakes == 2
MaxResponses == 2
MaxEntityMessages == 3
MaxLocalInserts == 2
MaxTrustMessages == 12
MaxDrops == 2
MaxDiscoveryMessages == 3
MaxReplies == 2
MaxShares == 1
MaxTaskRuns == 3
MaxPeerEntities == 1
MaxCapMessages == 21
MaxOverlappingEntities == 2

\* --------------------------------------------------------------- constants
NULL == "null"
clientId == "self"
PeerIds == {"p1", "p2"}
Sockets == {"w1", "w2"}
\* ENV.HIVE_SHARE_CATEGORIES default
shareCategories == {"market_events", "tokens", "concepts"}
\* cap of a per-peer contribution counter
ExpertiseCap == 20

\* ------------------------------------------------------------ input sets
\* category lists a caller passes to requestKnowledge / sendCollaborativeQuery
CategoryLists == {<<"tokens", "wallets", "concepts">>, <<"wallets">>}
\* the expertiseProfile.categories object each remote peer puts in its
\* handshake and handshake-ack messages
ProfileOf(id) == IF id = "p1" THEN "tokensExpert" ELSE "conceptsExpert"
\* the requestId / queryId a response may carry (one more than is ever issued)
ResponseIds == 1..(MaxConcurrentCalls + 1)
\* the `entities` and `error` fields of a knowledge-response
KnowledgeResponses == {[entities |-> "[e1]", error |-> FALSE],
                       [entities |-> "[e2]", error |-> FALSE],
                       [entities |-> "undefined", error |-> TRUE]}
\* the `result` and `error` fields of a query-response
QueryResponses == {[result |-> "R1", error |-> FALSE],
                   [result |-> "null", error |-> TRUE]}

VARIABLES
  peers,            \* this.peers: Map peerId -> ws, as a sequence in insertion order
  readyState,       \* ws.readyState of every socket ("NONE" = not created)
  wsDir,            \* "in": accepted by this.server, "out": created by connectToPeer
  wsPeerId,         \* the ws.peerId property set by a handshake
  peerCategories,   \* this.peerCategories: peerId -> observed categories object
  pendingQueries,   \* this.pendingQueries: id -> {resolve, timer}
  timers,           \* armed hiveTimeout timers, in arming order
  calls,            \* requestKnowledge / sendCollaborativeQuery calls and their promises
  sent,             \* messages the node has sent
  store,            \* knowledge_entities table: <<type, value>> -> row
  nextRowId,        \* AUTOINCREMENT counter of knowledge_entities
  entityCountByCategory, \* knowledgeManager.entityCountByCategory
  peerExpertise,    \* knowledgeManager.peerExpertise
  established,      \* history: sockets on which the handshake exchange completed
  linksAtCall,      \* history: established open sockets when a call was made
  resolutionLog,    \* history: every removal-and-resolve of a pending entry
  lastEvent,        \* history: the kind of the last event handled
  lastEntity,       \* history: the entity of the last new-entity message handled
  budget,           \* history: events used, to bound the run
  requestedAtCall,  \* history: the categories argument of every call
  env,              \* process.env when the process started
  useAutoDiscovery, \* this.useAutoDiscovery
  discoveryServer,  \* this.discoveryServer: "null", or the readyState of its socket
  inMatchmakingQueue, \* this.inMatchmakingQueue
  discoverySent,    \* messages sent to the discovery server, in order
  reconnectTimers,  \* armed 30 s reconnection timers
  discoveryLog,     \* history: what initialize and the discovery handlers did
  replies,          \* knowledge-response / query-response messages the node sent, in order
  shared,           \* new-entity messages the node sent
  shareCalls,       \* history: every shareEntity call and the value it returned
  lastRequest,      \* history: the last knowledge-request / query message handled
  tasks,            \* BackgroundTaskManager.tasks: name -> task function
  running,          \* BackgroundTaskManager.running
  taskIntervals,    \* BackgroundTaskManager.taskIntervals (names with a setInterval)
  taskLog,          \* history: start() calls and task runs
  intervalTimers,   \* the number of armed setInterval timers of every task
  srvPeers,         \* discovery server: server.peers, peerId -> expertise profile
  matchmakingQueue, \* discovery server: server.matchmakingQueue, peerIds in FIFO order
  peerPreferences,  \* discovery server: server.peerPreferences, peerId -> preferences
  maxPeersPerClient, \* discovery server: MAX_PEERS_PER_CLIENT
  lastPass,         \* history: the suggestions each peer was sent in the last pass
  expertiseProfile, \* this.expertiseProfile
  builtProfile,     \* history: the category counts when buildExpertiseProfile ran
  connectPromise,   \* the promise connectToPeer returned for every socket
  connectTimer,     \* armed 5 s connect timers
  known,            \* connectToKnownPeers: its position, counter and return value
  inflight,         \* handleNewEntity calls suspended at an await
  closed,           \* history: close() has returned
  discClosing,      \* the discovery socket close() closed has not emitted 'close' yet
  suggestions       \* the peer_suggestions loop suspended at await connectToPeer

vars == <<peers, readyState, wsDir, wsPeerId, peerCategories, pendingQueries,
          timers, calls, sent, store, nextRowId, entityCountByCategory,
          peerExpertise, established, linksAtCall, resolutionLog, lastEvent,
          lastEntity, budget, requestedAtCall, env, useAutoDiscovery,
          discoveryServer, inMatchmakingQueue, discoverySent, reconnectTimers,
          discoveryLog, replies, shared, shareCalls, lastRequest, tasks, running,
          taskIntervals, taskLog, intervalTimers, srvPeers, matchmakingQueue, peerPreferences,
          maxPeersPerClient, lastPass, expertiseProfile, builtProfile,
          connectPromise, connectTimer, known, inflight, closed, discClosing,
          suggestions>>

\* everything the node itself holds (no history variable)
nodeVars == <<peers, readyState, wsDir, wsPeerId, peerCategories,
              pendingQueries, timers, calls, sent, store, nextRowId,
              entityCountByCategory, peerExpertise>>

p2pVars == <<peers, readyState, wsDir, wsPeerId, peerCategories,
             pendingQueries, timers, calls, sent, established, linksAtCall,
             resolutionLog, requestedAtCall>>

kmVars == <<store, nextRowId, entityCountByCategory, peerExpertise>>

\* the discovery client of the node
discVars == <<env, useAutoDiscovery, discoveryServer, inMatchmakingQueue,
              discoverySent, reconnectTimers, discoveryLog>>

\* what the node sent as a responder and as a broadcaster
serveVars == <<replies, shared, shareCalls, lastRequest>>

\* the background task manager
taskVars == <<tasks, running, taskIntervals, taskLog, intervalTimers>>

\* the discovery server
srvVars == <<srvPeers, matchmakingQueue, peerPreferences, maxPeersPerClient, lastPass>>

\* the expertise profile of the node
profVars == <<expertiseProfile, builtProfile>>

\* outgoing connection attempts
connVars == <<connectPromise, connectTimer, known>>

\* the handlers that are between two awaits, and the shutdown
lateVars == <<inflight, closed, discClosing, suggestions>>

moreVars == <<srvVars, profVars, connVars, lateVars>>

extVars == <<discVars, serveVars, taskVars, moreVars>>

\* a metadata value: a JSON object with its fields, null, or undefined
Meta(kind, fields) == [kind |-> kind, fields |-> fields]
Entity(type, value, metadata) == [type |-> type, value |-> value, metadata |-> metadata]
\* the metadata of the entities a peer may send
Metadatas == {Meta("undefined", {}), Meta("null", {}), Meta("object", {}),
              Meta("object", {<<"a", 1>>}), Meta("object", {<<"b", 3>>}),
              Meta("object", {<<"a", 1>>, <<"b", 2>>})}
\* the entities of the new-entity messages a peer may send: tokens (a
\* shared category) with every metadata, wallets (not shared), and
\* entities without a type ("") or without a value (0)
EntityInputs ==
  {Entity("token", 1, m) : m \in Metadatas}
    \cup {Entity("wallet", 1, m) : m \in {Meta("object", {}), Meta("object", {<<"a", 1>>})}}
    \cup {Entity("", 1, Meta("object", {<<"a", 1>>})),
          Entity("token", 0, Meta("object", {<<"a", 1>>}))}
\* the entities the node may extract from a conversation and insert itself
LocalEntities ==
  {Entity("token", 1, Meta("object", {<<"a", 1>>})), Entity("wallet", 1, Meta("object", {}))}
\* the categories the knowledge manager counts
Categories == {"tokens", "wallets", "concepts", "market_events"}
\* counts loadEntityCounts may find in the database at startup
LoadedCounts == {0, 45}
NoEntity == Entity("", 0, Meta("undefined", {}))

\* ------------------------------------------------------- JavaScript values
Truthy(v) == v \notin {"undefined", "null", "pending"}
IsArray(v) == v \in {"[]", "[e1]", "[e2]"}
Elements(v) == IF v = "[e1]" THEN <<"e1">> ELSE IF v = "[e2]" THEN <<"e2">> ELSE <<>>
\* a || b
OrElse(a, b) == IF Truthy(a) THEN a ELSE b

\* -------------------------------------------------------------- sequences
RemoveAll(s, x) == SelectSeq(s, LAMBDA y : y # x)

\* Map operations on this.peers (a Map keeps insertion order; set() of an
\* existing key replaces the value in place)
PeersHas(id) == \E i \in 1..Len(peers) : peers[i].peerId = id
PeersGet(id) == (CHOOSE i \in 1..Len(peers) : peers[i].peerId = id)
\* Map.set that always adds a new entry, as an array push would
MapSet_AlwaysAppend(m, id, ws) == Append(m, [peerId |-> id, ws |-> ws])

MapSet(m, id, ws) ==
  IF \E i \in 1..Len(m) : m[i].peerId = id
  THEN [i \in 1..Len(m) |-> IF m[i].peerId = id THEN [peerId |-> id, ws |-> ws] ELSE m[i]]
  ELSE Append(m, [peerId |-> id, ws |-> ws])
MapDelete(m, id) == SelectSeq(m, LAMBDA e : e.peerId # id)

\* ------------------------------------------------------------ environment
\* JavaScript values whose type matters to ===
JSBoolean(b) == [type |-> "boolean", value |-> IF b THEN "true" ELSE "false"]
JSString(str) == [type |-> "string", value |-> str]
\* a === b: equal only when the types are the same
StrictEquals(a, b) == a.type = b.type /\ a.value = b.value

\* the process environments the node may be started with
Envs ==
  [HIVE_AUTO_DISCOVERY   : {"unset", "true", "false"},
   HIVE_DISCOVERY_SERVER : {"unset", "ws://discovery"},
   HIVE_MAX_PEERS        : {"unset", "1"},
   HIVE_KNOWN_PEERS      : {"unset", "ws://peer"},
   HIVE_PREFER_RANDOM    : {"unset", "true"}]
\* the environment with no HIVE variable set
DefaultEnv ==
  [HIVE_AUTO_DISCOVERY |-> "unset", HIVE_DISCOVERY_SERVER |-> "unset",
   HIVE_MAX_PEERS |-> "unset", HIVE_KNOWN_PEERS |-> "unset",
   HIVE_PREFER_RANDOM |-> "unset"]

\* parseInt(str, 10) of the digit strings used here
ParseInt(str) == CASE str = "1" -> 1 [] str = "2" -> 2 [] str = "3" -> 3 [] OTHER -> 0

\* the ENV object of config/env.js
ENV_HIVE_AUTO_DISCOVERY(e) == JSBoolean(e.HIVE_AUTO_DISCOVERY = "true")
ENV_HIVE_DISCOVERY_SERVER(e) ==
  IF e.HIVE_DISCOVERY_SERVER = "unset" THEN "" ELSE e.HIVE_DISCOVERY_SERVER
ENV_HIVE_MAX_PEERS(e) ==
  ParseInt(IF e.HIVE_MAX_PEERS = "unset" THEN "3" ELSE e.HIVE_MAX_PEERS)
ENV_HIVE_KNOWN_PEERS(e) ==
  CASE e.HIVE_KNOWN_PEERS = "unset" -> <<>>
    [] e.HIVE_KNOWN_PEERS = "ws://peer, ,ws://peer2" -> <<"ws://peer", " ", "ws://peer2">>
    [] e.HIVE_KNOWN_PEERS = "peer,ws://peer" -> <<"peer", "ws://peer">>
    [] e.HIVE_KNOWN_PEERS = "ws://peer,,ws://peer2" -> <<"ws://peer", "ws://peer2">>
    [] OTHER -> <<e.HIVE_KNOWN_PEERS>>

ENV_HIVE_PREFER_RANDOM(e) == JSBoolean(e.HIVE_PREFER_RANDOM = "true")

\* this.discoveryServerUrl = ENV.HIVE_DISCOVERY_SERVER || null
discoveryServerUrl(e) ==
  IF ENV_HIVE_DISCOVERY_SERVER(e) = "" THEN NULL ELSE ENV_HIVE_DISCOVERY_SERVER(e)

\* the names of BACKGROUND_TASK_CONFIG, in the order of Object.entries
TaskNames == <<"knowledgeMaintenance", "marketMonitoring", "tokenPriceMonitoring",
               "performanceMetrics">>
\* BACKGROUND_TASK_CONFIG[name].enabled
TaskEnabled(name) == name # "tokenPriceMonitoring"

\* a knowledge-request / query message: the socket it arrived on, its
\* requestId / queryId, its categories field (absent when hasCategories is
\* FALSE) and what the local lookup does ("ok", "null" or "throws")
Request(w, id, hasCategories, categories, outcome) ==
  [ws |-> w, id |-> id, hasCategories |-> hasCategories, categories |-> categories,
   outcome |-> outcome]
NoRequest == Request("none", 0, FALSE, <<>>, "ok")
\* the shareCategories a remote peer announces in its expertiseProfile
ShareOf(id) == IF id = "p1" THEN {"market_events", "tokens", "concepts"} ELSE {"concepts"}
\* the entities the application may hand to shareEntity
SharedEntities ==
  {Entity("token", 1, Meta("object", {<<"a", 1>>})), Entity("wallet", 1, Meta("object", {}))}

\* the peers that may connect to the discovery server
ServerPeerIds == {"a", "b", "c"}
\* parseInt(process.env.MAX_PEERS_PER_CLIENT || '5', 10)
DefaultMaxPeersPerClient == 5
\* the server has no connection record / no preferences for a peer
NoRecord == [registered |-> FALSE, categories |-> [c \in Categories |-> 0]]
NoPreferences == [preferRandom |-> FALSE, preferComplementary |-> FALSE, maxPeers |-> 0]
\* this.expertiseProfile = {}
EmptyProfile == [categories |-> "undefined"]
\* a profile without category counts, as it reads after JSON.stringify
NoCounts == [c \in Categories |-> -1]

\* ------------------------------------------------------------------- Init
\* the discovery client, the responder logs and the task manager after
\* construction, for a process started with environment e
InitExt(e) ==
  /\ env = e
  /\ useAutoDiscovery = StrictEquals(ENV_HIVE_AUTO_DISCOVERY(e), JSString("true"))
  /\ discoveryServer = NULL
  /\ inMatchmakingQueue = FALSE
  /\ discoverySent = <<>>
  /\ reconnectTimers = 0
  /\ discoveryLog = [initialized |-> FALSE, explicitPeersConnected |-> 0,
                     initAttempt |-> FALSE, attempts |-> 0, welcomes |-> 0,
                     drops |-> 0, fired |-> 0, retries |-> 0, dials |-> 0]
  /\ replies = <<>>
  /\ shared = {}
  /\ shareCalls = <<>>
  /\ lastRequest = NoRequest
  /\ tasks = [n \in {TaskNames[i] : i \in 1..Len(TaskNames)} |-> "absent"]
  /\ running = FALSE
  /\ taskIntervals = {}
  /\ taskLog = <<>>
  /\ intervalTimers = [n \in {TaskNames[i] : i \in 1..Len(TaskNames)} |-> 0]

\* the discovery server after construction with MAX_PEERS_PER_CLIENT = cap, and
\* the profile and the connection attempts of the node after its constructor
InitMore(cap) ==
  /\ srvPeers = [p \in ServerPeerIds |-> NoRecord]
  /\ matchmakingQueue = <<>>
  /\ peerPreferences = [p \in ServerPeerIds |-> NoPreferences]
  /\ maxPeersPerClient = cap
  /\ lastPass = [p \in ServerPeerIds |-> {}]
  /\ expertiseProfile = EmptyProfile
  /\ builtProfile = NoCounts
  /\ connectPromise = [w \in Sockets |-> "none"]
  /\ connectTimer = [w \in Sockets |-> FALSE]
  /\ known = [pc |-> "idle", i |-> 0, awaited |-> NULL, connectedCount |-> 0,
              dialed |-> {}]
  /\ inflight = {}
  /\ closed = FALSE
  /\ discClosing = FALSE
  /\ suggestions = [pc |-> "idle", awaited |-> NULL, rest |-> 0]

\* the maps, the store and the logs of the node after construction
InitNode ==
  /\ requestedAtCall = <<>>
  /\ peers = <<>>
  /\ readyState = [w \in Sockets |-> "NONE"]
  /\ wsDir = [w \in Sockets |-> "none"]
  /\ wsPeerId = [w \in Sockets |-> NULL]
  /\ peerCategories = [p \in PeerIds |-> "unset"]
  /\ pendingQueries = <<>>
  /\ timers = <<>>
  /\ calls = <<>>
  /\ sent = {}
  /\ store = <<>>
  /\ nextRowId = 1
  /\ entityCountByCategory = [c \in Categories |-> 0]
  /\ peerExpertise = [p \in PeerIds |-> [c \in Categories |-> 0]]
  /\ established = {}
  /\ linksAtCall = <<>>
  /\ resolutionLog = <<>>
  /\ lastEvent = "init"
  /\ lastEntity = NoEntity
  /\ budget = [handshakes |-> 0, responses |-> 0, entities |-> 0, inserts |-> 0]

Init ==
  /\ InitExt(DefaultEnv)
  /\ InitMore(DefaultMaxPeersPerClient)
  /\ InitNode

\* ---------------------------------------------------------------- helpers
Msg(w, type, id, categories) == [ws |-> w, type |-> type, id |-> id, categories |-> categories]

\* the categories of `profile` as JSON.stringify writes them when a message
\* is sent: buildExpertiseProfile stored a reference to the knowledge
\* manager's entityCountByCategory object, not a copy
StringifyCategories(profile) ==
  IF profile.categories = "entityCountByCategory" THEN entityCountByCategory ELSE NoCounts

\* a handshake or handshake-ack message: clientId and expertiseProfile
HandshakeMsg(w, type, profile) ==
  [ws |-> w, type |-> type, id |-> 0, categories |-> <<>>,
   profile |-> StringifyCategories(profile)]

\* expertiseProfile.categories[category] of a handshake profile
ProfileCount(profile, category) ==
  CASE profile = "tokensExpert"   -> IF category = "tokens" THEN 2 ELSE 0
    [] profile = "conceptsExpert" -> IF category = "concepts" THEN 3 ELSE 0
    [] profile = "negative"       -> -1
    [] OTHER                      -> 0

\* --------------------------------------------------------------- sockets
\* this.server.on('connection', ws => ...): a remote peer opened a socket
AcceptConnection(w) ==
  /\ readyState[w] = "NONE"
  /\ readyState' = [readyState EXCEPT ![w] = "OPEN"]
  /\ wsDir' = [wsDir EXCEPT ![w] = "in"]
  /\ lastEvent' = "handled"
  /\ UNCHANGED <<peers, wsPeerId, peerCategories, pendingQueries, timers, calls,
                 sent, established, linksAtCall, requestedAtCall, resolutionLog, budget, lastEntity, kmVars, extVars>>

\* the promise executor of connectToPeer(address): new WebSocket(address),
\* the handlers, and setTimeout(..., 5000); nothing is added to this.peers
newConnection(w) ==
  /\ readyState[w] = "NONE"
  /\ readyState' = [readyState EXCEPT ![w] = "CONNECTING"]
  /\ wsDir' = [wsDir EXCEPT ![w] = "out"]
  /\ connectPromise' = [connectPromise EXCEPT ![w] = "pending"]
  /\ connectTimer' = [connectTimer EXCEPT ![w] = TRUE]
  /\ lastEvent' = "handled"
  /\ UNCHANGED <<peers, wsPeerId, peerCategories, pendingQueries, timers, calls,
                 sent, established, linksAtCall, requestedAtCall, resolutionLog, budget, lastEntity, kmVars,
                 discVars, serveVars, taskVars, srvVars, profVars, inflight, closed,
                 discClosing>>

\* connectToPeer(address) called on its own
connectToPeer(w) ==
  /\ newConnection(w)
  /\ UNCHANGED <<known, suggestions>>

\* resolve(value): the first settlement of a promise is the one that counts
resolve(promise, value) == IF promise = "pending" THEN value ELSE promise

\* ws.on('open') of connectToPeer: send the handshake, resolve(true)
SocketOpen(w) ==
  /\ readyState[w] = "CONNECTING"
  /\ readyState' = [readyState EXCEPT ![w] = "OPEN"]
  /\ sent' = sent \cup {HandshakeMsg(w, "handshake", expertiseProfile)}
  /\ connectPromise' = [connectPromise EXCEPT ![w] = resolve(@, "true")]
  /\ lastEvent' = "handled"
  /\ UNCHANGED <<peers, wsDir, wsPeerId, peerCategories, pendingQueries, timers,
                 calls, established, linksAtCall, requestedAtCall, resolutionLog, budget, lastEntity, kmVars,
                 discVars, serveVars, taskVars, srvVars, profVars, lateVars, connectTimer, known>>

\* handleMessage, case 'handshake'
HandleHandshake(w, id, profile) ==
  /\ readyState[w] = "OPEN"
  /\ budget.handshakes < MaxHandshakes
  /\ peers' = MapSet(peers, id, w)
  /\ wsPeerId' = [wsPeerId EXCEPT ![w] = id]
  /\ peerCategories' = IF profile # "none"
                       THEN [peerCategories EXCEPT ![id] = profile]
                       ELSE peerCategories
  /\ sent' = sent \cup {HandshakeMsg(w, "handshake-ack", expertiseProfile)}
  /\ established' = established \cup {w}
  /\ budget' = [budget EXCEPT !.handshakes = @ + 1]
  /\ lastEvent' = IF PeersHas(id) /\ peers[PeersGet(id)].ws = w
                  THEN "repeated-handshake" ELSE "handled"
  /\ UNCHANGED <<readyState, wsDir, pendingQueries, timers, calls, linksAtCall, requestedAtCall,
                 resolutionLog, lastEntity, kmVars, extVars>>

\* handleMessage, case 'handshake-ack'
HandleHandshakeAck(w, id, profile) ==
  /\ readyState[w] = "OPEN"
  /\ wsDir[w] = "out"
  /\ budget.handshakes < MaxHandshakes
  /\ peerCategories' = IF profile # "none"
                       THEN [peerCategories EXCEPT ![id] = profile]
                       ELSE peerCategories
  /\ established' = established \cup {w}
  /\ budget' = [budget EXCEPT !.handshakes = @ + 1]
  /\ lastEvent' = "handled"
  /\ UNCHANGED <<peers, readyState, wsDir, wsPeerId, pendingQueries, timers,
                 calls, sent, linksAtCall, requestedAtCall, resolutionLog, lastEntity, kmVars, extVars>>

\* the socket closes; only sockets accepted by this.server have a close handler
SocketClose(w) ==
  /\ readyState[w] = "OPEN"
  /\ readyState' = [readyState EXCEPT ![w] = "CLOSED"]
  /\ peers' = IF wsDir[w] = "in" /\ wsPeerId[w] # NULL
              THEN MapDelete(peers, wsPeerId[w])
              ELSE peers
  /\ lastEvent' = "handled"
  /\ UNCHANGED <<wsDir, wsPeerId, peerCategories, pendingQueries, timers, calls,
                 sent, established, linksAtCall, requestedAtCall, resolutionLog, budget, lastEntity, kmVars, extVars>>

\* ------------------------------------------------------- target selection
\* the for-loop of findBestPeerForCategory over this.peers.entries()
RECURSIVE BestScan(_, _, _, _)
BestScan(i, category, bestPeerId, bestScore) ==
  IF i > Len(peers) THEN bestPeerId
  ELSE LET score == IF peerCategories[peers[i].peerId] = "unset" THEN 0
                    ELSE ProfileCount(peerCategories[peers[i].peerId], category)
       IN IF score > bestScore
          THEN BestScan(i + 1, category, peers[i].peerId, score)
          ELSE BestScan(i + 1, category, bestPeerId, bestScore)

\* the first peer of the registry, whatever the counts
findBestPeerForCategory_FirstPeer(category) ==
  IF Len(peers) = 0 THEN NULL ELSE peers[1].peerId

findBestPeerForCategory(category) ==
  IF Len(peers) = 0 THEN NULL ELSE BestScan(1, category, NULL, -1)

\* the request built from the categories as given, without the filter
AllowedCategories_NoFilter(categories) == categories

\* categories.filter(cat => this.shareCategories.includes(cat))
AllowedCategories(categories) == SelectSeq(categories, LAMBDA c : c \in shareCategories)

\* the loop that fills targetPeers with the best peer of every category
RECURSIVE BestTargets(_, _, _)
BestTargets(allowed, k, targetPeers) ==
  IF k > Len(allowed) THEN targetPeers
  ELSE LET bestPeerId == findBestPeerForCategory(allowed[k])
       IN IF bestPeerId # NULL /\ PeersHas(bestPeerId)
          THEN BestTargets(allowed, k + 1,
                           MapSet(targetPeers, bestPeerId, peers[PeersGet(bestPeerId)].ws))
          ELSE BestTargets(allowed, k + 1, targetPeers)

\* ENV.HIVE_PREFER_RANDOM === 'true', of the process the node runs in
preferRandom == StrictEquals(ENV_HIVE_PREFER_RANDOM(env), JSString("true"))

\* the possible values of targetPeers when the sends start (getRandomPeer
\* is a choice among this.peers)
TargetChoices(allowed) ==
  LET best == BestTargets(allowed, 1, <<>>)
  IN IF Len(best) # 0 THEN {best}
     ELSE IF preferRandom THEN {<<peers[i]>> : i \in 1..Len(peers)}
     ELSE {peers}

\* the body of Array.from(targetPeers.entries()).map(...), target by target:
\* a socket that is not OPEN resolves its promise with `skip`; otherwise a
\* timer is armed, pendingQueries.set(id, ...) is called and the message sent
RECURSIVE Dispatch(_, _, _, _, _, _)
Dispatch(id, targets, i, message, skip, acc) ==
  IF i > Len(targets) THEN acc
  ELSE IF readyState[targets[i].ws] # "OPEN"
  THEN Dispatch(id, targets, i + 1, message, skip,
                [acc EXCEPT !.outer = Append(@, skip)])
  ELSE Dispatch(id, targets, i + 1, message, skip,
                [timers  |-> Append(acc.timers, [call |-> id, idx |-> i]),
                 pending |-> [k \in DOMAIN acc.pending \cup {id} |->
                                IF k = id THEN [call |-> id, idx |-> i] ELSE acc.pending[k]],
                 sent    |-> acc.sent \cup {Msg(targets[i].ws, message.type, id, message.categories)},
                 outer   |-> Append(acc.outer, "pending")])

\* a call record: the per-target promises of one call
Call(kind, categories, targets, outer) ==
  [kind |-> kind, categories |-> categories, targets |-> targets, outer |-> outer,
   response |-> [i \in 1..Len(targets) |-> "pending"], responsesReceived |-> 0]

\* requestKnowledge / sendCollaborativeQuery up to `await Promise.all`
IssueCall(kind, categories, type, skip) ==
  LET id == Len(calls) + 1
      allowed == AllowedCategories(categories)
  IN /\ linksAtCall' = Append(linksAtCall, {w \in established : readyState[w] = "OPEN"})
     /\ requestedAtCall' = Append(requestedAtCall, categories)
     /\ lastEvent' = "handled"
     /\ IF Len(peers) = 0 \/ Len(allowed) = 0
        THEN /\ calls' = Append(calls, Call(kind, allowed, <<>>, <<>>))
             /\ UNCHANGED <<timers, pendingQueries, sent>>
        ELSE \E targets \in TargetChoices(allowed) :
               LET d == Dispatch(id, targets, 1, [type |-> type, categories |-> allowed], skip,
                                 [timers |-> timers, pending |-> pendingQueries,
                                  sent |-> sent, outer |-> <<>>])
               IN /\ calls' = Append(calls, Call(kind, allowed, targets, d.outer))
                  /\ timers' = d.timers
                  /\ pendingQueries' = d.pending
                  /\ sent' = d.sent
     /\ UNCHANGED <<peers, readyState, wsDir, wsPeerId, peerCategories, established,
                    resolutionLog, budget, lastEntity, kmVars, extVars>>

requestKnowledge(categories) == IssueCall("knowledge", categories, "knowledge-request", "[]")

sendCollaborativeQuery(categories) == IssueCall("query", categories, "query", "null")

\* ---------------------------------------------------- responses and timers
MapRemove(f, k) == [x \in DOMAIN f \ {k} |-> f[x]]

\* the `resolve` stored in a pending entry, applied to `value`: it settles
\* the inner responsePromise of its own call and target, nothing else
\* (requestKnowledge: resolve = entities => {...}; sendCollaborativeQuery:
\* resolve = result => {...})
EntryResolve(cs, entry, value) ==
  LET c == cs[entry.call]
  IN IF c.kind = "knowledge"
     THEN [cs EXCEPT ![entry.call] =
             [c EXCEPT !.responsesReceived = @ + 1, !.response[entry.idx] = value]]
     ELSE IF Truthy(value)
     THEN [cs EXCEPT ![entry.call] =
             [c EXCEPT !.responsesReceived = @ + 1, !.response[entry.idx] = value]]
     ELSE [cs EXCEPT ![entry.call] = [c EXCEPT !.response[entry.idx] = "null"]]

\* ResponseEffect without the `if (!pendingRequest) return` lookup guard: a
\* response with an unknown id is matched to the oldest pending entry
ResponseEffect_NoLookupGuard(id, value, type) ==
  IF DOMAIN pendingQueries = {}
  THEN UNCHANGED <<pendingQueries, timers, calls, resolutionLog, budget>>
  ELSE LET key == IF id \in DOMAIN pendingQueries THEN id
                  ELSE CHOOSE k \in DOMAIN pendingQueries :
                         \A x \in DOMAIN pendingQueries : k <= x
           entry == pendingQueries[key]
       IN /\ budget.responses < MaxResponses
          /\ timers' = RemoveAll(timers, [call |-> entry.call, idx |-> entry.idx])
          /\ pendingQueries' = MapRemove(pendingQueries, key)
          /\ calls' = EntryResolve(calls, entry, value)
          /\ resolutionLog' = Append(resolutionLog, [id |-> key, by |-> type])
          /\ budget' = [budget EXCEPT !.responses = @ + 1]

\* the effect of a response handler on the pending map, the timers and the
\* promises, for a message carrying `id`; `value` is what it hands to resolve
ResponseEffect(id, value, type) ==
  IF id \notin DOMAIN pendingQueries
  THEN UNCHANGED <<pendingQueries, timers, calls, resolutionLog, budget>>
  ELSE LET entry == pendingQueries[id]
       IN /\ budget.responses < MaxResponses
          /\ timers' = RemoveAll(timers, [call |-> entry.call, idx |-> entry.idx])
          /\ pendingQueries' = MapRemove(pendingQueries, id)
          /\ calls' = EntryResolve(calls, entry, value)
          /\ resolutionLog' = Append(resolutionLog, [id |-> id, by |-> type])
          /\ budget' = [budget EXCEPT !.responses = @ + 1]

\* handleMessage, case 'knowledge-response' -> handleKnowledgeResponse
handleKnowledgeResponse(id, entities, error) ==
  /\ \E w \in Sockets : readyState[w] = "OPEN"
  /\ ResponseEffect(id, OrElse(entities, "[]"), "knowledge-response")
  /\ lastEvent' = IF id \in DOMAIN pendingQueries THEN "handled" ELSE "unmatched-response"
  /\ UNCHANGED <<peers, readyState, wsDir, wsPeerId, peerCategories, sent,
                 established, linksAtCall, requestedAtCall, lastEntity, kmVars, extVars>>

\* handleMessage, case 'query-response' -> handleQueryResponse
handleQueryResponse(id, result, error) ==
  /\ \E w \in Sockets : readyState[w] = "OPEN"
  /\ ResponseEffect(id, IF error THEN "null" ELSE result, "query-response")
  /\ lastEvent' = IF id \in DOMAIN pendingQueries THEN "handled" ELSE "unmatched-response"
  /\ UNCHANGED <<peers, readyState, wsDir, wsPeerId, peerCategories, sent,
                 established, linksAtCall, requestedAtCall, lastEntity, kmVars, extVars>>

\* TimerFire without the `if (pendingQuery)` check of the callback
TimerFire_NoPendingCheck ==
  /\ Len(timers) > 0
  /\ LET t == Head(timers)
         skip == IF calls[t.call].kind = "knowledge" THEN "[]" ELSE "null"
     IN /\ timers' = Tail(timers)
        /\ pendingQueries' = MapRemove(pendingQueries, t.call)
        /\ calls' = [calls EXCEPT ![t.call].outer[t.idx] = skip]
        /\ resolutionLog' = Append(resolutionLog, [id |-> t.call, by |-> "timeout"])
        /\ lastEvent' = "handled"
  /\ UNCHANGED <<peers, readyState, wsDir, wsPeerId, peerCategories, sent,
                 established, linksAtCall, requestedAtCall, budget, lastEntity, kmVars, extVars>>

\* TimerFire without this.pendingQueries.delete(requestId)
TimerFire_KeepsEntry ==
  /\ Len(timers) > 0
  /\ LET t == Head(timers)
         skip == IF calls[t.call].kind = "knowledge" THEN "[]" ELSE "null"
     IN /\ timers' = Tail(timers)
        /\ IF t.call \in DOMAIN pendingQueries
           THEN /\ calls' = [calls EXCEPT ![t.call].outer[t.idx] = skip]
                /\ resolutionLog' = Append(resolutionLog, [id |-> t.call, by |-> "timeout"])
           ELSE UNCHANGED <<calls, resolutionLog>>
        /\ lastEvent' = "handled"
  /\ UNCHANGED <<peers, readyState, wsDir, wsPeerId, peerCategories, sent, pendingQueries,
                 established, linksAtCall, requestedAtCall, budget, lastEntity, kmVars, extVars>>

\* the setTimeout callback of one target of one call; all timers run for
\* this.timeout, so they expire in the order they were armed
TimerFire ==
  /\ Len(timers) > 0
  /\ LET t == Head(timers)
         skip == IF calls[t.call].kind = "knowledge" THEN "[]" ELSE "null"
     IN /\ timers' = Tail(timers)
        /\ IF t.call \in DOMAIN pendingQueries
           THEN /\ pendingQueries' = MapRemove(pendingQueries, t.call)
                /\ calls' = [calls EXCEPT ![t.call].outer[t.idx] = skip]
                /\ resolutionLog' = Append(resolutionLog, [id |-> t.call, by |-> "timeout"])
           ELSE UNCHANGED <<pendingQueries, calls, resolutionLog>>
        /\ lastEvent' = "handled"
  /\ UNCHANGED <<peers, readyState, wsDir, wsPeerId, peerCategories, sent,
                 established, linksAtCall, requestedAtCall, budget, lastEntity, kmVars, extVars>>

\* ------------------------------------------------ what the caller receives
\* `await Promise.all(peerPromises)` has returned
Settled(r) == \A i \in 1..Len(calls[r].outer) : calls[r].outer[i] # "pending"

\* allEntities: results.forEach(entities => Array.isArray(entities) && push(...entities))
RECURSIVE AllEntities(_, _)
AllEntities(outer, i) ==
  IF i > Len(outer) THEN <<>>
  ELSE (IF IsArray(outer[i]) THEN Elements(outer[i]) ELSE <<>>) \o AllEntities(outer, i + 1)

\* allResults: the truthy {peerId, result} elements of results
RECURSIVE AllResults(_, _, _)
AllResults(targets, outer, i) ==
  IF i > Len(outer) THEN <<>>
  ELSE (IF Truthy(outer[i]) THEN <<[peerId |-> targets[i].peerId, result |-> outer[i]]>>
        ELSE <<>>) \o AllResults(targets, outer, i + 1)

\* the value requestKnowledge / sendCollaborativeQuery returns
Returned(r) ==
  IF calls[r].kind = "knowledge"
  THEN AllEntities(calls[r].outer, 1)
  ELSE AllResults(calls[r].targets, calls[r].outer, 1)

\* ------------------------------------------------------------------- Next
Next ==
  \/ \E w \in Sockets : AcceptConnection(w)
  \/ \E w \in Sockets, id \in PeerIds : HandleHandshake(w, id, ProfileOf(id))
  \/ \E categories \in CategoryLists : Len(calls) < MaxCalls /\ requestKnowledge(categories)
  \/ \E categories \in CategoryLists : Len(calls) < MaxCalls /\ sendCollaborativeQuery(categories)
  \/ \E id \in ResponseIds, m \in KnowledgeResponses :
       handleKnowledgeResponse(id, m.entities, m.error)
  \/ \E id \in ResponseIds, m \in QueryResponses :
       handleQueryResponse(id, m.result, m.error)
  \/ TimerFire

Spec == Init /\ [][Next]_vars

\* the node's timers do fire: a setTimeout callback that is due runs
NextPending ==
  \/ \E w \in Sockets : AcceptConnection(w)
  \/ \E w \in Sockets, id \in PeerIds : HandleHandshake(w, id, ProfileOf(id))
  \/ \E categories \in CategoryLists : Len(calls) < MaxCalls /\ requestKnowledge(categories)
  \/ \E categories \in CategoryLists : Len(calls) < MaxCalls /\ sendCollaborativeQuery(categories)
  \/ \E id \in ResponseIds : handleKnowledgeResponse(id, "[e1]", FALSE)
  \/ \E id \in ResponseIds : handleQueryResponse(id, "R1", FALSE)
  \/ TimerFire

SpecPending == Init /\ [][NextPending]_vars /\ WF_vars(TimerFire)

\* several knowledge requests outstanding at once
NextConcurrent ==
  \/ \E w \in Sockets : AcceptConnection(w)
  \/ \E w \in Sockets, id \in PeerIds : HandleHandshake(w, id, ProfileOf(id))
  \/ \E categories \in CategoryLists :
       Len(calls) < MaxConcurrentCalls /\ requestKnowledge(categories)
  \/ \E id \in ResponseIds, m \in KnowledgeResponses :
       handleKnowledgeResponse(id, m.entities, m.error)
  \/ TimerFire

SpecConcurrent == Init /\ [][NextConcurrent]_vars

\* links in both directions, and requests over them
NextLink ==
  \/ \E w \in Sockets : AcceptConnection(w)
  \/ \E w \in Sockets : connectToPeer(w)
  \/ \E w \in Sockets : SocketOpen(w)
  \/ \E w \in Sockets, id \in PeerIds : HandleHandshake(w, id, ProfileOf(id))
  \/ \E w \in Sockets, id \in PeerIds : HandleHandshakeAck(w, id, ProfileOf(id))
  \/ \E w \in Sockets : SocketClose(w)
  \/ \E categories \in CategoryLists : Len(calls) < MaxCalls /\ requestKnowledge(categories)
  \/ \E categories \in CategoryLists : Len(calls) < MaxCalls /\ sendCollaborativeQuery(categories)

SpecLink == Init /\ [][NextLink]_vars

\* ---------------------------------------------------- knowledge manager
\* KnowledgeManager.entityTypeToCategory
entityTypeToCategory(entityType) ==
  CASE entityType = "token"        -> "tokens"
    [] entityType = "wallet"       -> "wallets"
    [] entityType = "project"      -> "projects"
    [] entityType = "exchange"     -> "exchanges"
    [] entityType = "market_event" -> "market_events"
    [] entityType = "concept"      -> "concepts"
    [] OTHER                       -> entityType

\* isEntityTypeAllowed with a slip in its table: 'wallet' mapped to 'tokens'
isEntityTypeAllowed_WalletAsTokens(entityType) ==
  LET category == CASE entityType = "token"        -> "tokens"
                    [] entityType = "wallet"       -> "tokens"
                    [] entityType = "project"      -> "projects"
                    [] entityType = "exchange"     -> "exchanges"
                    [] entityType = "market_event" -> "market_events"
                    [] entityType = "concept"      -> "concepts"
                    [] OTHER                       -> entityType
  IN category \in shareCategories

\* SimpleHiveP2P.isEntityTypeAllowed, with its own copy of the table
isEntityTypeAllowed(entityType) ==
  LET category == CASE entityType = "token"        -> "tokens"
                    [] entityType = "wallet"       -> "wallets"
                    [] entityType = "project"      -> "projects"
                    [] entityType = "exchange"     -> "exchanges"
                    [] entityType = "market_event" -> "market_events"
                    [] entityType = "concept"      -> "concepts"
                    [] OTHER                       -> entityType
  IN category \in shareCategories

\* Database.storeEntity: metadata = {} when undefined, JSON.stringify, then
\* INSERT ... ON CONFLICT(entity_type, entity_value) DO UPDATE SET metadata
StoredMetadata(metadata) ==
  IF metadata.kind = "undefined" THEN Meta("object", {}) ELSE metadata

storeEntity(st, rowId, type, value, metadata) ==
  LET key == <<type, value>>
  IN IF key \in DOMAIN st
     THEN [st EXCEPT ![key].metadata = StoredMetadata(metadata)]
     ELSE [k \in DOMAIN st \cup {key} |->
             IF k = key THEN [id |-> rowId, metadata |-> StoredMetadata(metadata)]
             ELSE st[k]]

\* Object.keys(x).length; Object.keys throws a TypeError on null and undefined
KeysThrows(metadata) == metadata.kind # "object"
KeysLength(metadata) == Cardinality(metadata.fields)

\* trackPeerEntity without the Math.min(20, ...) line
trackPeerEntity_NoCap(pe, category, peerId) ==
  [pe EXCEPT ![peerId][category] = @ + 1]

\* KnowledgeManager.trackPeerEntity, for an entity of the given category
trackPeerEntity(pe, category, peerId) ==
  [pe EXCEPT ![peerId][category] = IF @ + 1 < ExpertiseCap THEN @ + 1 ELSE ExpertiseCap]

\* processSharedEntity that replaces the stored metadata whenever the
\* incoming one is at least as large (>= instead of >)
processSharedEntity_TiesReplace(entity, sourcePeerId) ==
  LET key == <<entity.type, entity.value>>
      category == entityTypeToCategory(entity.type)
  IN IF key \notin DOMAIN store
     THEN /\ store' = storeEntity(store, nextRowId, entity.type, entity.value, entity.metadata)
          /\ nextRowId' = nextRowId + 1
          /\ entityCountByCategory' = [entityCountByCategory EXCEPT ![category] = @ + 1]
          /\ peerExpertise' = trackPeerEntity(peerExpertise, category, sourcePeerId)
     ELSE IF KeysThrows(store[key].metadata) \/ KeysThrows(entity.metadata)
     THEN UNCHANGED kmVars
     ELSE IF KeysLength(entity.metadata) >= KeysLength(store[key].metadata)
     THEN /\ store' = [store EXCEPT ![key].metadata = entity.metadata]
          /\ peerExpertise' = trackPeerEntity(peerExpertise, category, sourcePeerId)
          /\ UNCHANGED <<nextRowId, entityCountByCategory>>
     ELSE UNCHANGED kmVars

\* KnowledgeManager.processSharedEntity, run to completion
processSharedEntity(entity, sourcePeerId) ==
  LET key == <<entity.type, entity.value>>
      category == entityTypeToCategory(entity.type)
  IN IF key \notin DOMAIN store
     THEN /\ store' = storeEntity(store, nextRowId, entity.type, entity.value, entity.metadata)
          /\ nextRowId' = nextRowId + 1
          /\ entityCountByCategory' = [entityCountByCategory EXCEPT ![category] = @ + 1]
          /\ peerExpertise' = trackPeerEntity(peerExpertise, category, sourcePeerId)
     ELSE IF KeysThrows(store[key].metadata) \/ KeysThrows(entity.metadata)
     THEN UNCHANGED kmVars
     ELSE IF KeysLength(entity.metadata) > KeysLength(store[key].metadata)
     THEN /\ store' = [store EXCEPT ![key].metadata = entity.metadata]
          /\ peerExpertise' = trackPeerEntity(peerExpertise, category, sourcePeerId)
          /\ UNCHANGED <<nextRowId, entityCountByCategory>>
     ELSE UNCHANGED kmVars

\* handleMessage, case 'new-entity' -> handleNewEntity
handleNewEntity(entity, sourceId) ==
  /\ \E w \in Sockets : readyState[w] = "OPEN"
  /\ IF entity.type = "" \/ entity.value = 0
     THEN UNCHANGED kmVars
     ELSE IF ~isEntityTypeAllowed(entity.type)
     THEN UNCHANGED kmVars
     ELSE processSharedEntity(entity, sourceId)
  /\ lastEvent' = "new-entity"
  /\ lastEntity' = entity
  /\ budget' = [budget EXCEPT !.entities = @ + 1]
  /\ UNCHANGED <<p2pVars, extVars>>

\* storeEntitiesAndRelationships for one extracted entity: a local insert
storeEntitiesAndRelationships(entity) ==
  LET key == <<entity.type, entity.value>>
      category == entityTypeToCategory(entity.type)
  IN /\ budget.inserts < MaxLocalInserts
     /\ IF key \in DOMAIN store
        THEN UNCHANGED kmVars
        ELSE /\ store' = storeEntity(store, nextRowId, entity.type, entity.value, entity.metadata)
             /\ nextRowId' = nextRowId + 1
             /\ entityCountByCategory' = [entityCountByCategory EXCEPT ![category] = @ + 1]
             /\ UNCHANGED peerExpertise
     /\ lastEvent' = "local-insert"
     /\ budget' = [budget EXCEPT !.inserts = @ + 1]
     /\ UNCHANGED <<p2pVars, lastEntity, extVars>>

\* calculateCategoryTrust in hundredths (0.5 is 50, 0.9 is 90, count/100 is
\* count hundredths and expertise/20 is 5 * expertise hundredths)
calculateCategoryTrust(peerId, category) ==
  LET entriesInCategory == IF category \in DOMAIN entityCountByCategory
                           THEN entityCountByCategory[category] ELSE 0
      selfTrust == IF 50 + entriesInCategory < 90 THEN 50 + entriesInCategory ELSE 90
      expertise == IF peerId \in DOMAIN peerExpertise /\ category \in DOMAIN peerExpertise[peerId]
                   THEN peerExpertise[peerId][category] ELSE 0
      peerTrust == 50 + 5 * expertise
  IN IF selfTrust > peerTrust THEN selfTrust ELSE peerTrust

\* new-entity messages and local inserts on a node with accepted sockets
NextEntity ==
  \/ \E w \in Sockets : AcceptConnection(w)
  \/ \E entity \in EntityInputs, sourceId \in PeerIds :
       /\ budget.entities < MaxEntityMessages
       /\ handleNewEntity(entity, sourceId)
  \/ \E entity \in LocalEntities : storeEntitiesAndRelationships(entity)

SpecEntity == Init /\ [][NextEntity]_vars

\* a long run of distinct entities, on a store that starts with loaded counts
InitTrust ==
  /\ InitExt(DefaultEnv)
  /\ InitMore(DefaultMaxPeersPerClient)
  /\ requestedAtCall = <<>>
  /\ peers = <<>>
  /\ readyState = [w \in Sockets |-> "NONE"]
  /\ wsDir = [w \in Sockets |-> "none"]
  /\ wsPeerId = [w \in Sockets |-> NULL]
  /\ peerCategories = [p \in PeerIds |-> "unset"]
  /\ pendingQueries = <<>>
  /\ timers = <<>>
  /\ calls = <<>>
  /\ sent = {}
  /\ store = <<>>
  /\ nextRowId = 1
  /\ \E n \in LoadedCounts : entityCountByCategory = [c \in Categories |-> n]
  /\ peerExpertise = [p \in PeerIds |-> [c \in Categories |-> 0]]
  /\ established = {}
  /\ linksAtCall = <<>>
  /\ resolutionLog = <<>>
  /\ lastEvent = "init"
  /\ lastEntity = NoEntity
  /\ budget = [handshakes |-> 0, responses |-> 0, entities |-> 0, inserts |-> 0]

NextTrust ==
  \/ \E w \in Sockets : AcceptConnection(w)
  \/ \E sourceId \in PeerIds :
       /\ budget.entities < MaxTrustMessages
       /\ handleNewEntity(Entity("token", nextRowId, Meta("object", {})), sourceId)
  \/ storeEntitiesAndRelationships(Entity("token", nextRowId, Meta("object", {})))

SpecTrust == InitTrust /\ [][NextTrust]_vars

\* the new-entity messages of a long session: a token the store does not
\* hold yet, token 1 again with the same and with a richer metadata, and a
\* wallet (a category that is not shared)
CapEntities ==
  {Entity("token", nextRowId, Meta("object", {})),
   Entity("token", 1, Meta("object", {})),
   Entity("token", 1, Meta("object", {<<"a", 1>>})),
   Entity("wallet", 1, Meta("object", {}))}

\* peers that keep sending entities until a contribution counter is full
NextCap ==
  \/ \E w \in Sockets : AcceptConnection(w)
  \/ \E entity \in CapEntities, sourceId \in PeerIds :
       /\ budget.entities < MaxCapMessages
       /\ handleNewEntity(entity, sourceId)

SpecCap == Init /\ [][NextCap]_vars

\* ------------------------------------------ overlapping new-entity handlers
\* the entities of new-entity messages that arrive close together: versions
\* of token 1 with zero, one and two metadata fields, and token 2
OverlapEntities ==
  {Entity("token", 1, Meta("object", {})),
   Entity("token", 1, Meta("object", {<<"a", 1>>})),
   Entity("token", 1, Meta("object", {<<"a", 1>>, <<"b", 2>>})),
   Entity("token", 2, Meta("object", {}))}

\* handleMessage, case 'new-entity': handleNewEntity is called and not
\* awaited; it runs to the first await of processSharedEntity
\* (getEntityByTypeAndValue) and the message handler returns
beginNewEntity(entity, sourceId) ==
  /\ \E w \in Sockets : readyState[w] = "OPEN"
  /\ budget.entities < MaxOverlappingEntities
  /\ inflight' = IF entity.type = "" \/ entity.value = 0 \/ ~isEntityTypeAllowed(entity.type)
                 THEN inflight
                 ELSE inflight \cup {[h |-> budget.entities + 1, entity |-> entity,
                                      source |-> sourceId, pc |-> "lookup"]}
  /\ lastEvent' = "new-entity-received"
  /\ lastEntity' = entity
  /\ budget' = [budget EXCEPT !.entities = @ + 1]
  /\ UNCHANGED <<p2pVars, kmVars, discVars, serveVars, taskVars, srvVars, profVars, connVars,
                    closed, discClosing, suggestions>>

\* processSharedEntity resumes with the row getEntityByTypeAndValue read
\* and goes on to its next await: storeEntity when there was no row,
\* updateEntityMetadata when the incoming metadata has more fields; otherwise
\* it returns false (a TypeError of Object.keys is caught)
lookupDone(hd) ==
  LET key == <<hd.entity.type, hd.entity.value>>
      next == IF key \notin DOMAIN store THEN "insert"
              ELSE IF KeysThrows(store[key].metadata) \/ KeysThrows(hd.entity.metadata)
              THEN "done"
              ELSE IF KeysLength(hd.entity.metadata) > KeysLength(store[key].metadata)
              THEN "update" ELSE "done"
  IN /\ hd \in inflight
     /\ hd.pc = "lookup"
     /\ inflight' = IF next = "done" THEN inflight \ {hd}
                    ELSE (inflight \ {hd}) \cup {[hd EXCEPT !.pc = next]}
     /\ lastEvent' = "lookup"
     /\ UNCHANGED <<p2pVars, kmVars, budget, lastEntity, discVars, serveVars, taskVars,
                    srvVars, profVars, connVars,
                    closed, discClosing, suggestions>>

\* the statement of database.storeEntity (INSERT ... ON CONFLICT DO UPDATE
\* SET metadata) or of updateEntityMetadata (UPDATE ... WHERE id) runs
writeDone(hd) ==
  LET key == <<hd.entity.type, hd.entity.value>>
  IN /\ hd \in inflight
     /\ hd.pc \in {"insert", "update"}
     /\ IF hd.pc = "insert"
        THEN /\ store' = storeEntity(store, nextRowId, hd.entity.type, hd.entity.value,
                                     hd.entity.metadata)
             /\ nextRowId' = IF key \in DOMAIN store THEN nextRowId ELSE nextRowId + 1
        ELSE /\ store' = [store EXCEPT ![key].metadata = hd.entity.metadata]
             /\ UNCHANGED nextRowId
     /\ inflight' = (inflight \ {hd}) \cup
                      {[hd EXCEPT !.pc = IF hd.pc = "insert" THEN "count" ELSE "track"]}
     /\ lastEvent' = "write"
     /\ UNCHANGED <<p2pVars, entityCountByCategory, peerExpertise, budget, lastEntity,
                    discVars, serveVars, taskVars, srvVars, profVars, connVars,
                    closed, discClosing, suggestions>>

\* processSharedEntity resumes after the write: entityCountByCategory++ on
\* the insert path, then trackPeerEntity, and it returns true
finishEntity(hd) ==
  LET category == entityTypeToCategory(hd.entity.type)
  IN /\ hd \in inflight
     /\ hd.pc \in {"count", "track"}
     /\ entityCountByCategory' = IF hd.pc = "count"
                                 THEN [entityCountByCategory EXCEPT ![category] = @ + 1]
                                 ELSE entityCountByCategory
     /\ peerExpertise' = trackPeerEntity(peerExpertise, category, hd.source)
     /\ inflight' = inflight \ {hd}
     /\ lastEvent' = "new-entity"
     /\ UNCHANGED <<p2pVars, store, nextRowId, budget, lastEntity, discVars, serveVars,
                    taskVars, srvVars, profVars, connVars,
                    closed, discClosing, suggestions>>

\* new-entity messages whose handlers overlap at their awaits
NextOverlap ==
  \/ \E w \in Sockets : AcceptConnection(w)
  \/ \E entity \in OverlapEntities, sourceId \in PeerIds : beginNewEntity(entity, sourceId)
  \/ \E hd \in inflight : lookupDone(hd)
  \/ \E hd \in inflight : writeDone(hd)
  \/ \E hd \in inflight : finishEntity(hd)

SpecOverlap == Init /\ [][NextOverlap]_vars

\* ------------------------------------------------- connecting to peers
\* the 'open' handler of socket w has run (it is the only sender of a
\* handshake on a dialed socket)
Opened(w) == \E m \in sent : m.ws = w /\ m.type = "handshake"

\* ws.on('error') of connectToPeer: the connection attempt failed, the
\* socket is closed, resolve(false)
SocketError(w) ==
  /\ readyState[w] = "CONNECTING"
  /\ readyState' = [readyState EXCEPT ![w] = "CLOSED"]
  /\ connectPromise' = [connectPromise EXCEPT ![w] = resolve(@, "false")]
  /\ lastEvent' = "handled"
  /\ UNCHANGED <<peers, wsDir, wsPeerId, peerCategories, pendingQueries, timers,
                 calls, sent, established, linksAtCall, requestedAtCall, resolutionLog,
                 budget, lastEntity, kmVars, discVars, serveVars, taskVars, srvVars,
                 profVars, lateVars, connectTimer, known>>

\* the 5 s callback that neither terminates the socket nor resolves
ConnectTimeout_NoResolve(w) ==
  /\ connectTimer[w]
  /\ connectTimer' = [connectTimer EXCEPT ![w] = FALSE]
  /\ lastEvent' = "handled"
  /\ UNCHANGED <<p2pVars, budget, lastEntity, kmVars, discVars, serveVars, taskVars,
                 srvVars, profVars, lateVars, connectPromise, known>>

\* the setTimeout callback of connectToPeer, 5 s after the call: a socket
\* that is not open is terminated and the promise resolved with false
ConnectTimeout(w) ==
  /\ connectTimer[w]
  /\ connectTimer' = [connectTimer EXCEPT ![w] = FALSE]
  /\ IF readyState[w] # "OPEN"
     THEN /\ readyState' = [readyState EXCEPT ![w] = "CLOSED"]
          /\ connectPromise' = [connectPromise EXCEPT ![w] = resolve(@, "false")]
     ELSE UNCHANGED <<readyState, connectPromise>>
  /\ lastEvent' = "handled"
  /\ UNCHANGED <<peers, wsDir, wsPeerId, peerCategories, pendingQueries, timers,
                 calls, sent, established, linksAtCall, requestedAtCall, resolutionLog,
                 budget, lastEntity, kmVars, discVars, serveVars, taskVars, srvVars,
                 profVars, lateVars, known>>

\* !peerAddress || peerAddress.trim() === ''
Blank(address) == address = "" \/ address = " "
\* new WebSocket(address) throws on a string that is no ws:// URL
InvalidURL(address) == address = "peer"

\* the index of the next address of the list the loop does not skip, 0 when
\* the loop is over
NextAddress(i) ==
  LET knownPeers == ENV_HIVE_KNOWN_PEERS(env)
      rest == {j \in DOMAIN knownPeers : j > i /\ ~Blank(knownPeers[j])}
  IN IF rest = {} THEN 0 ELSE CHOOSE j \in rest : \A k \in rest : j <= k

\* the for loop of connectToKnownPeers from the address after index i up to
\* its next await, or to the return statement
KnownLoop(i, connectedCount) ==
  LET knownPeers == ENV_HIVE_KNOWN_PEERS(env)
      j == NextAddress(i)
  IN IF j = 0
     THEN /\ known' = [known EXCEPT !.pc = "returned", !.i = Len(knownPeers),
                                    !.awaited = NULL, !.connectedCount = connectedCount]
          /\ lastEvent' = "handled"
          /\ UNCHANGED <<p2pVars, budget, lastEntity, kmVars, discVars, serveVars,
                         taskVars, srvVars, profVars, lateVars, connectPromise, connectTimer>>
     ELSE IF InvalidURL(knownPeers[j])
     THEN /\ known' = [known EXCEPT !.pc = "awaiting", !.i = j, !.awaited = "threw",
                                    !.connectedCount = connectedCount]
          /\ lastEvent' = "handled"
          /\ UNCHANGED <<p2pVars, budget, lastEntity, kmVars, discVars, serveVars,
                         taskVars, srvVars, profVars, lateVars, connectPromise, connectTimer>>
     ELSE \E w \in Sockets :
            /\ newConnection(w)
            /\ UNCHANGED suggestions
            /\ known' = [known EXCEPT !.pc = "awaiting", !.i = j, !.awaited = w,
                                      !.connectedCount = connectedCount,
                                      !.dialed = @ \cup {w}]

\* connectToKnownPeers(), up to its first await
connectToKnownPeers ==
  /\ known.pc = "idle"
  /\ KnownLoop(0, 0)

\* connectToKnownPeers resumes once the awaited promise is settled
KnownResume ==
  /\ known.pc = "awaiting"
  /\ LET success == IF known.awaited = "threw" THEN "false"
                    ELSE connectPromise[known.awaited]
     IN /\ success \in {"true", "false"}
        /\ KnownLoop(known.i, IF success = "true" THEN known.connectedCount + 1
                              ELSE known.connectedCount)

\* the HIVE_KNOWN_PEERS values of the nodes that dial known peers
KnownPeerSettings ==
  {"ws://peer", "ws://peer, ,ws://peer2", "peer,ws://peer", "ws://peer,,ws://peer2", " "}

InitConnect ==
  /\ \E v \in KnownPeerSettings : InitExt([DefaultEnv EXCEPT !.HIVE_KNOWN_PEERS = v])
  /\ InitMore(DefaultMaxPeersPerClient)
  /\ InitNode

NextConnect ==
  \/ connectToKnownPeers
  \/ KnownResume
  \/ \E w \in Sockets : SocketOpen(w)
  \/ \E w \in Sockets : SocketError(w)
  \/ \E w \in Sockets : ConnectTimeout(w)
  \/ \E w \in Sockets : SocketClose(w)
  \/ \E w \in Sockets, id \in PeerIds :
       HandleHandshakeAck(w, id, "none")

\* the event loop runs every due timer and every continuation of a settled
\* promise
SpecConnect ==
  /\ InitConnect
  /\ [][NextConnect]_vars
  /\ WF_vars(\E w \in Sockets : ConnectTimeout(w))
  /\ WF_vars(KnownResume)

\* ---------------------------------------------- responder and broadcaster
\* a knowledge-response / query-response message sent on socket w
Reply(w, type, id, entities, result, error) ==
  [ws |-> w, type |-> type, id |-> id, entities |-> entities, result |-> result,
   error |-> error]

\* KnowledgeManager.getKnowledgeByCategories: the rows whose entity_type is
\* one of the known types the categories map to (as <<type, value>> keys)
getKnowledgeByCategories(categories) ==
  LET categoryToType(cat) ==
        CASE cat = "tokens"        -> "token"
          [] cat = "wallets"       -> "wallet"
          [] cat = "projects"      -> "project"
          [] cat = "exchanges"     -> "exchange"
          [] cat = "market_events" -> "market_event"
          [] cat = "concepts"      -> "concept"
          [] OTHER                 -> cat
      entityTypes == {categoryToType(categories[k]) : k \in 1..Len(categories)}
                       \cap {"token", "wallet", "project", "exchange", "market_event", "concept"}
  IN {key \in DOMAIN store : key[1] \in entityTypes}

\* handleKnowledgeRequest that looks the requested categories up unfiltered
handleKnowledgeRequest_NoFilter(data) ==
  /\ readyState[data.ws] = "OPEN"
  /\ Len(replies) < MaxReplies
  /\ replies' = Append(replies,
       IF ~data.hasCategories
       THEN Reply(data.ws, "knowledge-response", data.id, {}, "none", "Failed to retrieve knowledge")
       ELSE IF Len(data.categories) = 0
       THEN Reply(data.ws, "knowledge-response", data.id, {}, "none", "none")
       ELSE IF data.outcome = "throws"
       THEN Reply(data.ws, "knowledge-response", data.id, {}, "none", "Failed to retrieve knowledge")
       ELSE Reply(data.ws, "knowledge-response", data.id,
                  getKnowledgeByCategories(data.categories), "none", "none"))
  /\ lastRequest' = data
  /\ lastEvent' = "knowledge-request"
  /\ UNCHANGED <<p2pVars, kmVars, budget, lastEntity, discVars, shared, shareCalls, taskVars, moreVars>>

\* handleMessage, case 'knowledge-request' -> handleKnowledgeRequest
handleKnowledgeRequest(data) ==
  /\ readyState[data.ws] = "OPEN"
  /\ Len(replies) < MaxReplies
  /\ replies' = Append(replies,
       IF ~data.hasCategories
       THEN Reply(data.ws, "knowledge-response", data.id, {}, "none", "Failed to retrieve knowledge")
       ELSE IF Len(AllowedCategories(data.categories)) = 0
       THEN Reply(data.ws, "knowledge-response", data.id, {}, "none", "none")
       ELSE IF data.outcome = "throws"
       THEN Reply(data.ws, "knowledge-response", data.id, {}, "none", "Failed to retrieve knowledge")
       ELSE Reply(data.ws, "knowledge-response", data.id,
                  getKnowledgeByCategories(AllowedCategories(data.categories)), "none", "none"))
  /\ lastRequest' = data
  /\ lastEvent' = "knowledge-request"
  /\ UNCHANGED <<p2pVars, kmVars, budget, lastEntity, discVars, shared, shareCalls, taskVars, moreVars>>

\* handleQuery without its catch block: a throwing processQuery ends the
\* handler before anything is sent
handleQuery_NoCatch(data) ==
  /\ readyState[data.ws] = "OPEN"
  /\ Len(replies) < MaxReplies
  /\ replies' =
       IF ~data.hasCategories
       THEN replies
       ELSE IF Len(AllowedCategories(data.categories)) = 0
       THEN Append(replies, Reply(data.ws, "query-response", data.id, {}, "null", "No shared categories"))
       ELSE IF data.outcome = "throws"
       THEN replies
       ELSE Append(replies, Reply(data.ws, "query-response", data.id, {},
                                  IF data.outcome = "null" THEN "null" ELSE "R1", "none"))
  /\ lastRequest' = data
  /\ lastEvent' = "query"
  /\ UNCHANGED <<p2pVars, kmVars, budget, lastEntity, discVars, shared, shareCalls, taskVars, moreVars>>

\* handleMessage, case 'query' -> handleQuery; data.outcome is what
\* knowledgeManager.processQuery does: returns a result, returns null, or throws
handleQuery(data) ==
  /\ readyState[data.ws] = "OPEN"
  /\ Len(replies) < MaxReplies
  /\ replies' = Append(replies,
       IF ~data.hasCategories
       THEN Reply(data.ws, "query-response", data.id, {}, "null", "Failed to process query")
       ELSE IF Len(AllowedCategories(data.categories)) = 0
       THEN Reply(data.ws, "query-response", data.id, {}, "null", "No shared categories")
       ELSE IF data.outcome = "throws"
       THEN Reply(data.ws, "query-response", data.id, {}, "null", "Failed to process query")
       ELSE Reply(data.ws, "query-response", data.id, {},
                  IF data.outcome = "null" THEN "null" ELSE "R1", "none"))
  /\ lastRequest' = data
  /\ lastEvent' = "query"
  /\ UNCHANGED <<p2pVars, kmVars, budget, lastEntity, discVars, shared, shareCalls, taskVars, moreVars>>

\* a new-entity message of the n-th shareEntity call, sent to a registry entry
SharedMsg(n, entry, entity) ==
  [n |-> n, ws |-> entry.ws, peerId |-> entry.peerId, entity |-> entity]

\* shareEntity whose loop ends at the first send that throws
shareEntity_AbortOnFailure(entity, failing) ==
  LET n == Len(shareCalls) + 1
      open == {i \in 1..Len(peers) : readyState[peers[i].ws] = "OPEN"}
      notified == IF isEntityTypeAllowed(entity.type)
                  THEN {i \in open : /\ peers[i].ws \notin failing
                                     /\ \A j \in open : j < i => peers[j].ws \notin failing}
                  ELSE {}
  IN /\ Len(shareCalls) < MaxShares
     /\ shared' = shared \cup {SharedMsg(n, peers[i], entity) : i \in notified}
     /\ shareCalls' = Append(shareCalls,
          [entity |-> entity, failing |-> failing, peers |-> peers,
           open |-> {peers[i].ws : i \in open}, returned |-> Cardinality(notified)])
     /\ lastEvent' = "share"
     /\ UNCHANGED <<p2pVars, kmVars, budget, lastEntity, discVars, replies, lastRequest, taskVars, moreVars>>

\* shareEntity(entity); ws.send throws on the sockets in `failing`
shareEntity(entity, failing) ==
  LET n == Len(shareCalls) + 1
      open == {i \in 1..Len(peers) : readyState[peers[i].ws] = "OPEN"}
      notified == IF isEntityTypeAllowed(entity.type)
                  THEN {i \in open : peers[i].ws \notin failing}
                  ELSE {}
  IN /\ Len(shareCalls) < MaxShares
     /\ shared' = shared \cup {SharedMsg(n, peers[i], entity) : i \in notified}
     /\ shareCalls' = Append(shareCalls,
          [entity |-> entity, failing |-> failing, peers |-> peers,
           open |-> {peers[i].ws : i \in open}, returned |-> Cardinality(notified)])
     /\ lastEvent' = "share"
     /\ UNCHANGED <<p2pVars, kmVars, budget, lastEntity, discVars, replies, lastRequest, taskVars, moreVars>>

\* the requests a remote peer may send
Requests ==
  {Request("w1", 1, TRUE, <<"tokens", "wallets">>, "ok"),
   Request("w1", 2, TRUE, <<"wallets">>, "ok"),
   Request("w2", 2, TRUE, <<"tokens", "wallets">>, "throws"),
   Request("w2", 1, TRUE, <<"wallets">>, "throws"),
   Request("w2", 1, TRUE, <<"concepts">>, "null"),
   Request("w1", 1, FALSE, <<>>, "ok")}

\* a node that answers the requests of its peers from its store
NextServe ==
  \/ \E w \in Sockets : AcceptConnection(w)
  \/ \E entity \in LocalEntities : storeEntitiesAndRelationships(entity)
  \/ \E data \in Requests : handleKnowledgeRequest(data)
  \/ \E data \in Requests : handleQuery(data)

SpecServe == Init /\ [][NextServe]_vars

\* a node that broadcasts entities to its registered peers
NextShare ==
  \/ \E w \in Sockets : AcceptConnection(w)
  \/ \E w \in Sockets, id \in PeerIds : HandleHandshake(w, id, ProfileOf(id))
  \/ \E w \in Sockets : SocketClose(w)
  \/ \E entity \in SharedEntities, failing \in SUBSET Sockets : shareEntity(entity, failing)

SpecShare == Init /\ [][NextShare]_vars

\* ------------------------------------------------------ discovery client
\* the messages the discovery server may send to the node (score in tenths)
DiscoveryMessage(type, inQueue, connectInfo, count, score) ==
  [type |-> type, inQueue |-> inQueue, connectInfo |-> connectInfo,
   count |-> count, score |-> score]
DiscoveryMessages ==
  {DiscoveryMessage("welcome", FALSE, FALSE, 0, 0),
   DiscoveryMessage("registered", FALSE, FALSE, 0, 0),
   DiscoveryMessage("matchmaking_status", TRUE, FALSE, 0, 0),
   DiscoveryMessage("matchmaking_status", FALSE, FALSE, 0, 0),
   DiscoveryMessage("peer-match", FALSE, TRUE, 1, 0),
   DiscoveryMessage("peer-match", FALSE, FALSE, 1, 0),
   DiscoveryMessage("peer_suggestions", FALSE, TRUE, 1, 0),
   DiscoveryMessage("peer_suggestions", FALSE, TRUE, 2, 0),
   DiscoveryMessage("peer-suggestion", FALSE, TRUE, 1, 5),
   DiscoveryMessage("peer-suggestion", FALSE, TRUE, 1, 9)}

\* connectToDiscoveryServer(), as a function of the socket state and the log:
\* without a URL nothing happens, otherwise a new socket is created
connectToDiscoveryServerResult(server, log) ==
  IF discoveryServerUrl(env) = NULL
  THEN [server |-> server, log |-> log]
  ELSE [server |-> "CONNECTING", log |-> [log EXCEPT !.attempts = @ + 1]]

\* buildExpertiseProfile(): categories is the knowledge manager's own object
buildExpertiseProfile == [categories |-> "entityCountByCategory"]

\* initialize(): connectToKnownPeers, then the discovery server when
\* useAutoDiscovery holds and no explicit peer connected; `opens` tells
\* whether the known peer's socket opens (connectToPeer resolves true) or
\* fails with an error before the 5 s timer
initialize(opens) ==
  LET knownPeers == ENV_HIVE_KNOWN_PEERS(env)
      explicitPeersConnected == IF Len(knownPeers) > 0 /\ opens THEN 1 ELSE 0
      log == [discoveryLog EXCEPT !.initialized = TRUE,
                                  !.explicitPeersConnected = explicitPeersConnected]
      d == IF useAutoDiscovery /\ explicitPeersConnected = 0
           THEN connectToDiscoveryServerResult(discoveryServer,
                                               [log EXCEPT !.initAttempt = discoveryServerUrl(env) # NULL])
           ELSE [server |-> discoveryServer, log |-> log]
  IN /\ ~discoveryLog.initialized
     /\ IF Len(knownPeers) > 0
        THEN /\ readyState' = [readyState EXCEPT !["w1"] = IF opens THEN "OPEN" ELSE "CLOSED"]
             /\ wsDir' = [wsDir EXCEPT !["w1"] = "out"]
             /\ sent' = IF opens
                        THEN sent \cup {HandshakeMsg("w1", "handshake", buildExpertiseProfile)}
                        ELSE sent
             /\ connectPromise' = [connectPromise EXCEPT !["w1"] =
                                     IF opens THEN "true" ELSE "false"]
             /\ connectTimer' = [connectTimer EXCEPT !["w1"] = TRUE]
        ELSE UNCHANGED <<readyState, wsDir, sent, connectPromise, connectTimer>>
     /\ expertiseProfile' = buildExpertiseProfile
     /\ builtProfile' = entityCountByCategory
     /\ discoveryServer' = d.server
     /\ discoveryLog' = d.log
     /\ lastEvent' = "handled"
     /\ UNCHANGED <<peers, wsPeerId, peerCategories, pendingQueries, timers, calls,
                    established, linksAtCall, requestedAtCall, resolutionLog, budget,
                    lastEntity, kmVars, env, useAutoDiscovery, inMatchmakingQueue,
                    discoverySent, reconnectTimers, serveVars, taskVars, srvVars, known,
                    lateVars>>

\* what only the discovery handlers leave alone
notDiscovery == <<peers, wsPeerId, peerCategories, pendingQueries, timers, calls,
                  established, linksAtCall, requestedAtCall, resolutionLog, budget,
                  lastEntity, kmVars, env, useAutoDiscovery, serveVars, taskVars, moreVars>>

\* a direct call of the public method connectToDiscoveryServer()
connectToDiscoveryServer ==
  LET d == connectToDiscoveryServerResult(discoveryServer, discoveryLog)
  IN /\ discoveryLog.initialized
     /\ discoveryServer = NULL
     /\ reconnectTimers = 0
     /\ discoveryLog.drops < MaxDrops
     /\ discoveryServer' = d.server
     /\ discoveryLog' = d.log
     /\ lastEvent' = "handled"
     /\ UNCHANGED <<notDiscovery, readyState, wsDir, sent, inMatchmakingQueue,
                    discoverySent, reconnectTimers>>

\* this.discoveryServer.on('open')
DiscoveryOpen ==
  /\ discoveryServer = "CONNECTING"
  /\ discoveryServer' = "OPEN"
  /\ lastEvent' = "handled"
  /\ UNCHANGED <<notDiscovery, readyState, wsDir, sent, inMatchmakingQueue,
                 discoverySent, reconnectTimers, discoveryLog>>

\* this.discoveryServer.on('close'): the connection dropped, or the attempt
\* failed ('error' followed by 'close'); the 30 s timer is armed
DiscoveryClose ==
  /\ discoveryServer \in {"CONNECTING", "OPEN"}
  /\ discoveryLog.drops < MaxDrops
  /\ discoveryServer' = NULL
  /\ reconnectTimers' = reconnectTimers + 1
  /\ discoveryLog' = [discoveryLog EXCEPT !.drops = @ + 1]
  /\ lastEvent' = "handled"
  /\ UNCHANGED <<notDiscovery, readyState, wsDir, sent, inMatchmakingQueue, discoverySent>>

\* the setTimeout(..., 30000) callback of the close handler
ReconnectTimerFire ==
  LET log == [discoveryLog EXCEPT !.fired = @ + 1]
      d == IF useAutoDiscovery
           THEN connectToDiscoveryServerResult(discoveryServer, log)
           ELSE [server |-> discoveryServer, log |-> log]
  IN /\ reconnectTimers > 0
     /\ reconnectTimers' = reconnectTimers - 1
     /\ discoveryServer' = d.server
     /\ discoveryLog' = [d.log EXCEPT !.retries = @ + (d.log.attempts - log.attempts)]
     /\ lastEvent' = "handled"
     /\ UNCHANGED <<notDiscovery, readyState, wsDir, sent, inMatchmakingQueue, discoverySent>>

\* joinMatchmakingQueue() without the inMatchmakingQueue test
joinMatchmakingQueueSent_NoFlagCheck(out) ==
  IF discoveryServer # "OPEN"
  THEN out
  ELSE Append(out, [type |-> "join_matchmaking", maxPeers |-> ENV_HIVE_MAX_PEERS(env),
                    profile |-> StringifyCategories(expertiseProfile)])

\* joinMatchmakingQueue(), as a function of the messages sent so far; send()
\* on a socket that is still connecting throws, which is caught
joinMatchmakingQueueSent(out) ==
  IF discoveryServer = NULL \/ inMatchmakingQueue
  THEN out
  ELSE IF discoveryServer # "OPEN"
  THEN out
  ELSE Append(out, [type |-> "join_matchmaking", maxPeers |-> ENV_HIVE_MAX_PEERS(env),
                    profile |-> StringifyCategories(expertiseProfile)])

\* the number of connectToPeer calls a discovery message leads to
NumDials(data) ==
  CASE data.type = "peer-match"       -> IF data.connectInfo THEN 1 ELSE 0
    [] data.type = "peer_suggestions" -> IF data.connectInfo THEN data.count ELSE 0
    [] data.type = "peer-suggestion"  -> IF data.connectInfo /\ data.score >= 7 THEN 1 ELSE 0
    [] OTHER                          -> 0

\* handleDiscoveryMessage(data)
handleDiscoveryMessage(data) ==
  /\ discoveryServer = "OPEN"
  /\ discoveryLog.welcomes + discoveryLog.dials + Len(discoverySent) < MaxDiscoveryMessages
  /\ lastEvent' = "handled"
  /\ IF data.type = "welcome"
     THEN /\ discoverySent' =
               LET registered == Append(discoverySent, [type |-> "register_expertise", maxPeers |-> 0,
                                                     profile |-> StringifyCategories(expertiseProfile)])
               IN IF useAutoDiscovery THEN joinMatchmakingQueueSent(registered) ELSE registered
          /\ inMatchmakingQueue' = (inMatchmakingQueue \/ useAutoDiscovery)
          /\ discoveryLog' = [discoveryLog EXCEPT !.welcomes = @ + 1]
          /\ UNCHANGED <<readyState, wsDir, connectPromise, connectTimer>>
     ELSE IF data.type = "matchmaking_status"
     THEN /\ inMatchmakingQueue' = data.inQueue
          /\ UNCHANGED <<readyState, wsDir, discoverySent, discoveryLog,
                         connectPromise, connectTimer>>
     ELSE \E dialed \in SUBSET {w \in Sockets : readyState[w] = "NONE"} :
            /\ Cardinality(dialed) = NumDials(data)
            /\ readyState' = [w \in Sockets |-> IF w \in dialed THEN "CONNECTING" ELSE readyState[w]]
            /\ wsDir' = [w \in Sockets |-> IF w \in dialed THEN "out" ELSE wsDir[w]]
            /\ connectPromise' = [w \in Sockets |-> IF w \in dialed THEN "pending"
                                                    ELSE connectPromise[w]]
            /\ connectTimer' = [w \in Sockets |-> w \in dialed \/ connectTimer[w]]
            /\ discoveryLog' = [discoveryLog EXCEPT !.dials = @ + NumDials(data)]
            /\ UNCHANGED <<inMatchmakingQueue, discoverySent>>
  /\ UNCHANGED <<peers, wsPeerId, peerCategories, pendingQueries, timers, calls,
                 established, linksAtCall, requestedAtCall, resolutionLog, budget,
                 lastEntity, kmVars, env, useAutoDiscovery, serveVars, taskVars,
                 srvVars, profVars, lateVars, known, sent, discoveryServer, reconnectTimers>>

\* a call of the public method joinMatchmakingQueue()
joinMatchmakingQueue ==
  LET out == joinMatchmakingQueueSent(discoverySent)
  IN /\ discoveryLog.initialized
     /\ Len(discoverySent) < MaxDiscoveryMessages
     /\ discoverySent' = out
     /\ inMatchmakingQueue' = (inMatchmakingQueue \/ out # discoverySent)
     /\ lastEvent' = "joinMatchmakingQueue"
     /\ UNCHANGED <<notDiscovery, readyState, wsDir, sent, discoveryServer,
                    reconnectTimers, discoveryLog>>

\* a call of the public method leaveMatchmakingQueue()
leaveMatchmakingQueue ==
  /\ discoveryLog.initialized
  /\ Len(discoverySent) < MaxDiscoveryMessages
  /\ IF discoveryServer = "OPEN" /\ inMatchmakingQueue
     THEN /\ discoverySent' = Append(discoverySent,
                                     [type |-> "leave_matchmaking", maxPeers |-> 0,
                                      profile |-> NoCounts])
          /\ inMatchmakingQueue' = FALSE
     ELSE UNCHANGED <<discoverySent, inMatchmakingQueue>>
  /\ lastEvent' = "leaveMatchmakingQueue"
  /\ UNCHANGED <<notDiscovery, readyState, wsDir, sent, discoveryServer,
                 reconnectTimers, discoveryLog>>

\* a node started with any environment, its discovery connection and the
\* messages of the discovery server
InitDiscovery ==
  /\ \E e \in Envs : InitExt(e)
  /\ InitMore(DefaultMaxPeersPerClient)
  /\ InitNode

NextDiscovery ==
  \/ \E opens \in BOOLEAN : initialize(opens)
  \/ connectToDiscoveryServer
  \/ DiscoveryOpen
  \/ DiscoveryClose
  \/ ReconnectTimerFire
  \/ \E data \in DiscoveryMessages : handleDiscoveryMessage(data)
  \/ \E w \in Sockets : SocketOpen(w)

SpecDiscovery == InitDiscovery /\ [][NextDiscovery]_vars

\* the public matchmaking methods, called while the discovery connection
\* comes and goes
NextMatchmaking ==
  \/ \E opens \in BOOLEAN : initialize(opens)
  \/ connectToDiscoveryServer
  \/ DiscoveryOpen
  \/ DiscoveryClose
  \/ \E data \in DiscoveryMessages : handleDiscoveryMessage(data)
  \/ joinMatchmakingQueue
  \/ leaveMatchmakingQueue

SpecMatchmaking == InitDiscovery /\ [][NextMatchmaking]_vars

\* the entities a peer may send while the profile is in use
PeerEntities == {Entity("token", 1, Meta("object", {<<"a", 1>>, <<"b", 2>>}))}
\* a node configured with a discovery server, with and without a known peer
ProfileEnvs ==
  {[DefaultEnv EXCEPT !.HIVE_DISCOVERY_SERVER = "ws://discovery"],
   [DefaultEnv EXCEPT !.HIVE_DISCOVERY_SERVER = "ws://discovery",
                      !.HIVE_KNOWN_PEERS = "ws://peer"]}

InitProfile ==
  /\ \E e \in ProfileEnvs : InitExt(e)
  /\ InitMore(DefaultMaxPeersPerClient)
  /\ InitNode

\* handshakes and matchmaking of an initialized node whose store grows
NextProfile ==
  \/ \E opens \in BOOLEAN : initialize(opens)
  \/ \E w \in Sockets : discoveryLog.initialized /\ AcceptConnection(w)
  \/ \E w \in Sockets, id \in PeerIds :
       discoveryLog.initialized /\ HandleHandshake(w, id, ProfileOf(id))
  \/ \E w \in Sockets : discoveryLog.initialized /\ connectToPeer(w)
  \/ \E w \in Sockets : SocketOpen(w)
  \/ \E entity \in LocalEntities : storeEntitiesAndRelationships(entity)
  \/ \E entity \in PeerEntities :
       /\ budget.entities < MaxPeerEntities
       /\ handleNewEntity(entity, "p1")
  \/ connectToDiscoveryServer
  \/ DiscoveryOpen
  \/ joinMatchmakingQueue

SpecProfile == InitProfile /\ [][NextProfile]_vars

\* ---------------------------------------------------------------- shutdown
\* handleDiscoveryMessage, cases 'peer-match', 'peer_suggestions' and
\* 'peer-suggestion', up to the first `await this.connectToPeer(peerUrl)`
receiveSuggestions(data) ==
  /\ discoveryServer = "OPEN"
  /\ suggestions.pc = "idle"
  /\ NumDials(data) > 0
  /\ \E w \in Sockets :
       /\ newConnection(w)
       /\ suggestions' = [pc |-> "awaiting", awaited |-> w, rest |-> NumDials(data) - 1]
  /\ UNCHANGED known

\* the loop over data.peers resumes when the awaited promise is settled and
\* dials the next suggested peer, or the handler returns
resumeSuggestions ==
  /\ suggestions.pc = "awaiting"
  /\ connectPromise[suggestions.awaited] \in {"true", "false"}
  /\ IF suggestions.rest > 0
     THEN /\ \E w \in Sockets :
               /\ newConnection(w)
               /\ suggestions' = [pc |-> "awaiting", awaited |-> w,
                                  rest |-> suggestions.rest - 1]
          /\ UNCHANGED known
     ELSE /\ suggestions' = [pc |-> "idle", awaited |-> NULL, rest |-> 0]
          /\ lastEvent' = "handled"
          /\ UNCHANGED <<p2pVars, kmVars, budget, lastEntity, discVars, serveVars, taskVars,
                         srvVars, profVars, connVars, inflight, closed, discClosing>>

\* close(): leave the queue, close the discovery socket and forget it, close
\* the sockets of the registry, clear the registry, close the server
close ==
  LET leaves == inMatchmakingQueue /\ discoveryServer = "OPEN"
      registered == {peers[i].ws : i \in 1..Len(peers)}
  IN /\ ~closed
     /\ discoveryLog.initialized
     /\ discoverySent' = IF leaves
                         THEN Append(discoverySent, [type |-> "leave_matchmaking",
                                                     maxPeers |-> 0, profile |-> NoCounts])
                         ELSE discoverySent
     /\ inMatchmakingQueue' = (inMatchmakingQueue /\ ~leaves)
     /\ discClosing' = (discoveryServer # NULL)
     /\ discoveryServer' = NULL
     /\ readyState' = [w \in Sockets |->
                         IF w \in registered /\ readyState[w] = "OPEN" THEN "CLOSED"
                         ELSE readyState[w]]
     /\ peers' = <<>>
     /\ closed' = TRUE
     /\ lastEvent' = "close"
     /\ UNCHANGED <<wsDir, wsPeerId, peerCategories, pendingQueries, timers, calls, sent,
                    established, linksAtCall, requestedAtCall, resolutionLog, budget,
                    lastEntity, kmVars, env, useAutoDiscovery, reconnectTimers,
                    discoveryLog, serveVars, taskVars, srvVars, profVars, connVars,
                    inflight, suggestions>>

\* the 'close' event of the discovery socket that close() closed: the
\* handler of connectToDiscoveryServer runs and arms the 30 s timer
DiscoveryClosed ==
  /\ discClosing
  /\ discClosing' = FALSE
  /\ discoveryServer' = NULL
  /\ reconnectTimers' = reconnectTimers + 1
  /\ lastEvent' = "handled"
  /\ UNCHANGED <<p2pVars, kmVars, budget, lastEntity, env, useAutoDiscovery,
                 inMatchmakingQueue, discoverySent, discoveryLog, serveVars, taskVars,
                 srvVars, profVars, connVars, inflight, closed, suggestions>>

\* a node that is shut down while connections are being made; the
\* application calls no method of the node after close()
NextClose ==
  \/ \E opens \in BOOLEAN : initialize(opens)
  \/ ~closed /\ connectToDiscoveryServer
  \/ ~closed /\ joinMatchmakingQueue
  \/ DiscoveryOpen
  \/ DiscoveryClose
  \/ DiscoveryClosed
  \/ ReconnectTimerFire
  \/ \E data \in DiscoveryMessages : receiveSuggestions(data)
  \/ resumeSuggestions
  \/ \E w \in Sockets : ~closed /\ AcceptConnection(w)
  \/ \E w \in Sockets, id \in PeerIds : HandleHandshake(w, id, ProfileOf(id))
  \/ \E w \in Sockets : SocketOpen(w)
  \/ \E w \in Sockets : SocketError(w)
  \/ \E w \in Sockets : ConnectTimeout(w)
  \/ close

\* a node configured with a discovery server, with and without
\* HIVE_AUTO_DISCOVERY=true
InitClose ==
  /\ \E auto \in {"unset", "true"} :
       InitExt([DefaultEnv EXCEPT !.HIVE_DISCOVERY_SERVER = "ws://discovery",
                                  !.HIVE_AUTO_DISCOVERY = auto])
  /\ InitMore(DefaultMaxPeersPerClient)
  /\ InitNode

SpecClose == InitClose /\ [][NextClose]_vars

\* ------------------------------------------------------- personality switch
\* the address setupHiveAgent adds: `ws://localhost:${ENV.HIVE_PORT}`
LocalServer == "ws://localhost:3000"

\* the initialize override of setupHiveAgent, run again by /switch in the
\* process whose own HIVE server holds the port: isPortInUse is true, the
\* local address is added to ENV.HIVE_KNOWN_PEERS (the list was empty) and
\* ENV.HIVE_SKIP_SERVER_CREATION is set
switchInitialize ==
  /\ discoveryLog.initialized
  /\ env.HIVE_KNOWN_PEERS = "unset"
  /\ env' = [env EXCEPT !.HIVE_KNOWN_PEERS = LocalServer]
  /\ lastEvent' = "switch"
  /\ UNCHANGED <<p2pVars, kmVars, budget, lastEntity, useAutoDiscovery, discoveryServer,
                 inMatchmakingQueue, discoverySent, reconnectTimers, discoveryLog,
                 serveVars, taskVars, moreVars>>

\* hiveP2P.initialize of the second run: no server is created, and
\* connectToKnownPeers dials the added address
secondInitialize ==
  /\ LocalServer \in {ENV_HIVE_KNOWN_PEERS(env)[i] : i \in DOMAIN ENV_HIVE_KNOWN_PEERS(env)}
  /\ connectToKnownPeers

\* the node's own server receives, on a socket it accepted, the handshake
\* the node sent on a socket it dialed to its own address; the message
\* carries clientId: this.clientId
selfHandshake(w) ==
  /\ wsDir[w] = "in"
  /\ \E o \in known.dialed : Opened(o)
  /\ HandleHandshake(w, clientId, ProfileOf(clientId))

\* the node starts, serves peers, and is initialized again by /switch
NextSwitch ==
  \/ \E opens \in BOOLEAN : initialize(opens)
  \/ switchInitialize
  \/ secondInitialize
  \/ KnownResume
  \/ \E w \in Sockets : AcceptConnection(w)
  \/ \E w \in Sockets : SocketOpen(w)
  \/ \E w \in Sockets : SocketError(w)
  \/ \E w \in Sockets : ConnectTimeout(w)
  \/ \E w \in Sockets : SocketClose(w)
  \/ \E w \in Sockets, id \in PeerIds : HandleHandshake(w, id, ProfileOf(id))
  \/ \E w \in Sockets : selfHandshake(w)

SpecSwitch == Init /\ [][NextSwitch]_vars

\* ------------------------------------------------ background task manager
\* a task function is "guarded" when its body sits in a try/catch, as the
\* functions of registerTasks do, and "plain" when an error of its body
\* rejects the promise it returns; "absent" is a name without a function
BuiltInTasks == {"knowledgeMaintenance", "marketMonitoring"}
\* the names and functions the application registers itself
CustomTasks == {"knowledgeMaintenance", "performanceMetrics"}

\* what the state of the task manager leaves alone
notTasks == <<p2pVars, kmVars, budget, lastEntity, discVars, serveVars, moreVars>>

\* await task(): TRUE when the promise rejects
Rejects(name, failing) == tasks[name] = "plain" /\ name \in failing

\* registerTasks(): the built-in, guarded task functions
registerTasks ==
  /\ \E n \in BuiltInTasks : tasks[n] # "guarded"
  /\ tasks' = [n \in DOMAIN tasks |-> IF n \in BuiltInTasks THEN "guarded" ELSE tasks[n]]
  /\ lastEvent' = "handled"
  /\ UNCHANGED <<notTasks, running, taskIntervals, taskLog, intervalTimers>>

\* registerTask(name, taskFunction)
registerTask(name, taskFunction) ==
  /\ tasks[name] # taskFunction
  /\ tasks' = [tasks EXCEPT ![name] = taskFunction]
  /\ lastEvent' = "handled"
  /\ UNCHANGED <<notTasks, running, taskIntervals, taskLog, intervalTimers>>

\* the for-loop of start() from entry i of Object.entries(this.taskConfig):
\* startTask runs the task at once and then sets its interval; a rejected
\* run ends startTask and start()
RECURSIVE StartLoop(_, _, _)
StartLoop(i, failing, acc) ==
  IF i > Len(TaskNames) THEN acc
  ELSE LET name == TaskNames[i]
       IN IF ~(TaskEnabled(name) /\ tasks[name] # "absent")
          THEN StartLoop(i + 1, failing, acc)
          ELSE IF Rejects(name, failing)
          THEN [acc EXCEPT !.log = Append(@, [name |-> name, failed |-> TRUE, by |-> "start"]),
                           !.rejected = TRUE]
          ELSE StartLoop(i + 1, failing,
                 [acc EXCEPT !.log = Append(@, [name |-> name, failed |-> name \in failing,
                                                by |-> "start"]),
                             !.intervals = @ \cup {name},
                             !.timers[name] = @ + 1])

\* start(); the bodies of the tasks in `failing` fail on their first run
start(failing) ==
  /\ Len(taskLog) < MaxTaskRuns
  /\ IF running
     THEN /\ lastEvent' = "handled"
          /\ UNCHANGED <<running, taskIntervals, taskLog, intervalTimers>>
     ELSE LET r == StartLoop(1, failing, [intervals |-> taskIntervals, log |-> taskLog,
                                          timers |-> intervalTimers, rejected |-> FALSE])
          IN /\ running' = TRUE
             /\ taskIntervals' = r.intervals
             /\ taskLog' = r.log
             /\ intervalTimers' = r.timers
             /\ lastEvent' = "start"
  /\ UNCHANGED <<notTasks, tasks>>

\* the setInterval callback of a started task: the task of the name runs
\* (the function the interval captured is the one registered at start) and
\* an error of it is caught
IntervalTick(name, fails) ==
  /\ intervalTimers[name] > 0
  /\ Len(taskLog) < MaxTaskRuns
  /\ taskLog' = Append(taskLog, [name |-> name, failed |-> fails, by |-> "interval"])
  /\ lastEvent' = "handled"
  /\ UNCHANGED <<notTasks, tasks, running, taskIntervals, intervalTimers>>

\* stop(): returns at once when not running; otherwise clearInterval for the
\* interval id the map holds for each name, then the map is cleared
stop ==
  /\ IF running
     THEN /\ taskIntervals' = {}
          /\ intervalTimers' = [n \in DOMAIN intervalTimers |->
                                  IF n \in taskIntervals THEN intervalTimers[n] - 1
                                  ELSE intervalTimers[n]]
          /\ running' = FALSE
     ELSE UNCHANGED <<taskIntervals, intervalTimers, running>>
  /\ lastEvent' = "stop"
  /\ UNCHANGED <<notTasks, tasks, taskLog>>

\* startTask(taskName, interval) called by the application: the task runs
\* once, then setInterval, and the id replaces the one the map held
startTask(name, fails) ==
  /\ Len(taskLog) < MaxTaskRuns
  /\ IF tasks[name] = "absent"
     THEN UNCHANGED <<taskIntervals, intervalTimers, taskLog>>
     ELSE /\ taskLog' = Append(taskLog, [name |-> name, failed |-> fails, by |-> "startTask"])
          /\ IF tasks[name] = "plain" /\ fails
             THEN UNCHANGED <<taskIntervals, intervalTimers>>
             ELSE /\ taskIntervals' = taskIntervals \cup {name}
                  /\ intervalTimers' = [intervalTimers EXCEPT ![name] = @ + 1]
  /\ lastEvent' = "startTask"
  /\ UNCHANGED <<notTasks, tasks, running>>

\* stopTask(taskName): clearInterval for the id the map holds, if any
stopTask(name) ==
  /\ IF name \in taskIntervals
     THEN /\ taskIntervals' = taskIntervals \ {name}
          /\ intervalTimers' = [intervalTimers EXCEPT ![name] = @ - 1]
     ELSE UNCHANGED <<taskIntervals, intervalTimers>>
  /\ lastEvent' = "stopTask"
  /\ UNCHANGED <<notTasks, tasks, running, taskLog>>

NextTasks ==
  \/ registerTasks
  \/ \E name \in CustomTasks : registerTask(name, "plain")
  \/ \E failing \in SUBSET CustomTasks : start(failing)
  \/ \E name \in CustomTasks \cup BuiltInTasks, fails \in BOOLEAN : IntervalTick(name, fails)
  \/ stop

SpecTasks == Init /\ [][NextTasks]_vars

\* the application also starts and stops single tasks
NextTaskCalls ==
  \/ registerTasks
  \/ \E name \in CustomTasks : registerTask(name, "plain")
  \/ \E failing \in SUBSET CustomTasks : start(failing)
  \/ \E name \in CustomTasks \cup BuiltInTasks, fails \in BOOLEAN : startTask(name, fails)
  \/ \E name \in CustomTasks \cup BuiltInTasks : stopTask(name)
  \/ \E name \in CustomTasks \cup BuiltInTasks, fails \in BOOLEAN : IntervalTick(name, fails)
  \/ stop

SpecTaskCalls == Init /\ [][NextTaskCalls]_vars

\* ----------------------------------------- target selection, on its own
\* the category lists of the selection runs
TargetLists == {<<"tokens", "concepts">>, <<"market_events">>, <<"concepts", "wallets">>}
\* a handshake may come without an expertiseProfile
HandshakeProfiles(id) == {ProfileOf(id), "none"}
\* the node runs with HIVE_PREFER_RANDOM unset or set to 'true'
TargetEnvs == {DefaultEnv, [DefaultEnv EXCEPT !.HIVE_PREFER_RANDOM = "true"]}

InitTargets ==
  /\ \E e \in TargetEnvs : InitExt(e)
  /\ InitMore(DefaultMaxPeersPerClient)
  /\ InitNode

NextTargets ==
  \/ \E w \in Sockets : AcceptConnection(w)
  \/ \E w \in Sockets, id \in PeerIds :
       \E profile \in HandshakeProfiles(id) : HandleHandshake(w, id, profile)
  \/ \E w \in Sockets : SocketClose(w)
  \/ \E categories \in TargetLists : Len(calls) < MaxCalls /\ requestKnowledge(categories)
  \/ \E categories \in TargetLists : Len(calls) < MaxCalls /\ sendCollaborativeQuery(categories)

SpecTargets == InitTargets /\ [][NextTargets]_vars

\* ------------------------------------------------- the message callback
\* the texts a peer socket may deliver
RawMessages == {"not json", "null", "{}", "{\"type\":\"ping\"}",
                "{\"type\":\"handshake\",\"clientId\":\"p1\"}"}

\* JSON.parse(message) followed by the read of data.type: a text that is not
\* JSON makes JSON.parse throw, and null parses but has no property `type`
JSONParse(message) ==
  CASE message = "not json" -> [throws |-> TRUE,  type |-> "undefined", clientId |-> NULL]
    [] message = "null"     -> [throws |-> TRUE,  type |-> "undefined", clientId |-> NULL]
    [] message = "{}"       -> [throws |-> FALSE, type |-> "undefined", clientId |-> NULL]
    [] message = "{\"type\":\"ping\"}" -> [throws |-> FALSE, type |-> "ping", clientId |-> NULL]
    [] OTHER                -> [throws |-> FALSE, type |-> "handshake", clientId |-> "p1"]

\* the case labels of the switch in handleMessage
MessageTypes == {"handshake", "handshake-ack", "knowledge-request", "knowledge-response",
                 "query", "query-response", "new-entity"}

\* the message callback with a catch block that terminates the socket
onMessage_TerminateOnError(w, message) ==
  LET data == JSONParse(message)
  IN /\ readyState[w] = "OPEN"
     /\ IF data.throws
        THEN /\ lastEvent' = "dropped"
             /\ readyState' = [readyState EXCEPT ![w] = "CLOSED"]
             /\ UNCHANGED <<peers, wsDir, wsPeerId, peerCategories, pendingQueries, timers,
                            calls, sent, established, linksAtCall, requestedAtCall,
                            resolutionLog, budget, lastEntity, kmVars, extVars>>
        ELSE IF data.type \notin MessageTypes
        THEN /\ lastEvent' = "dropped"
             /\ UNCHANGED <<p2pVars, budget, lastEntity, kmVars, extVars>>
        ELSE HandleHandshake(w, data.clientId, "none")

\* ws.on('message', ...) of an accepted socket and of a socket opened by
\* connectToPeer: JSON.parse and handleMessage inside try/catch; the switch
\* of handleMessage has no default case
onMessage(w, message) ==
  LET data == JSONParse(message)
  IN /\ readyState[w] = "OPEN"
     /\ IF data.throws \/ data.type \notin MessageTypes
        THEN /\ lastEvent' = "dropped"
             /\ UNCHANGED <<p2pVars, budget, lastEntity, kmVars, extVars>>
        ELSE HandleHandshake(w, data.clientId, "none")

NextMessages ==
  \/ \E w \in Sockets : AcceptConnection(w)
  \/ \E w \in Sockets : connectToPeer(w)
  \/ \E w \in Sockets : SocketOpen(w)
  \/ \E w \in Sockets, message \in RawMessages : onMessage(w, message)
  \/ \E categories \in CategoryLists : Len(calls) < MaxCalls /\ requestKnowledge(categories)
  \/ \E entity \in LocalEntities : storeEntitiesAndRelationships(entity)

SpecMessages == Init /\ [][NextMessages]_vars

\* ------------------------------------------------------ discovery server
\* the expertise profile (category -> count) each peer registers
ServerProfileOf(id) ==
  [c \in Categories |->
     CASE id = "a" /\ c = "tokens"   -> 5
       [] id = "b" /\ c = "concepts" -> 40
       [] id = "c" /\ c = "tokens"   -> 5
       [] id = "c" /\ c = "wallets"  -> 3
       [] OTHER                      -> 0]

\* the preferences a peer may put in join_matchmaking
Preferences ==
  {[preferRandom |-> TRUE,  preferComplementary |-> FALSE, maxPeers |-> 1],
   [preferRandom |-> FALSE, preferComplementary |-> TRUE,  maxPeers |-> 1],
   [preferRandom |-> TRUE,  preferComplementary |-> TRUE,  maxPeers |-> 2]}

\* MAX_PEERS_PER_CLIENT values the server may be started with
ServerCaps == {1, DefaultMaxPeersPerClient}

\* per-category contribution to a complementary score is capped here
threshold == 10
\* scores are normalized to 0..ScoreScale (tenths)
ScoreScale == 10
\* the values the uniform random score may take
RandomScores == {0, ScoreScale}

Min(x, y) == IF x < y THEN x ELSE y

RECURSIVE SumOver(_, _)
SumOver(S, f) ==
  IF S = {} THEN 0
  ELSE LET x == CHOOSE y \in S : TRUE IN f[x] + SumOver(S \ {x}, f)

\* complementary mode: the coverage gap of A that B closes, category by
\* category, each capped at the threshold, normalized
ComplementaryScore(A, B) ==
  LET gap == [c \in Categories |->
                IF srvPeers[A].categories[c] < srvPeers[B].categories[c]
                THEN Min(srvPeers[B].categories[c] - srvPeers[A].categories[c], threshold) ELSE 0]
  IN (SumOver(Categories, gap) * ScoreScale) \div (threshold * Cardinality(Categories))

\* the compatibility score of candidate B for the queued peer A; r is the
\* uniform random value drawn for B
Score(A, B, r) ==
  LET prefs == peerPreferences[A]
      c == IF prefs.preferComplementary THEN ComplementaryScore(A, B) ELSE 0
      u == IF prefs.preferRandom THEN r ELSE 0
  IN IF prefs.preferComplementary /\ prefs.preferRandom THEN (c + u) \div 2 ELSE c + u

\* every other queued or connected peer
Candidates(A) == {B \in ServerPeerIds : B # A /\ srvPeers[B].registered}

\* the number of partners a queued peer may be given in one pass, ignoring
\* its own maxPeers
Quota_IgnoreMaxPeers(A) == maxPeersPerClient

\* the number of partners a queued peer may be given in one pass
Quota(A) == Min(peerPreferences[A].maxPeers, maxPeersPerClient)

\* the highest-scoring partners of A, up to its quota, for random values r
Selections(A, r) ==
  LET k == Min(Quota(A), Cardinality(Candidates(A)))
  IN {S \in SUBSET Candidates(A) :
        /\ Cardinality(S) = k
        /\ \A x \in S, y \in Candidates(A) \ S : Score(A, x, r[x]) >= Score(A, y, r[y])}

InQueue(id) == \E i \in 1..Len(matchmakingQueue) : matchmakingQueue[i] = id

\* what a pass may send to peer A: nothing when A is not queued
PassSelections(A, r) == IF InQueue(A) THEN Selections(A, r) ELSE {{}}

notServer == <<p2pVars, kmVars, budget, lastEntity, discVars, serveVars, taskVars,
               profVars, lateVars, connVars, maxPeersPerClient>>

\* register(peerId, expertiseProfile): add or update the connection record
register(id) ==
  /\ srvPeers' = [srvPeers EXCEPT ![id] = [registered |-> TRUE, categories |-> ServerProfileOf(id)]]
  /\ lastEvent' = "register"
  /\ UNCHANGED <<notServer, matchmakingQueue, peerPreferences, lastPass>>

\* enqueue(peerId, preferences): ignored for an unknown or already queued peer
enqueue(id, preferences) ==
  /\ IF srvPeers[id].registered /\ ~InQueue(id)
     THEN /\ matchmakingQueue' = Append(matchmakingQueue, id)
          /\ peerPreferences' = [peerPreferences EXCEPT ![id] = preferences]
     ELSE UNCHANGED <<matchmakingQueue, peerPreferences>>
  /\ lastEvent' = "enqueue"
  /\ UNCHANGED <<notServer, srvPeers, lastPass>>

\* dequeue(peerId): remove the entry if present
dequeue(id) ==
  /\ matchmakingQueue' = RemoveAll(matchmakingQueue, id)
  /\ peerPreferences' = [peerPreferences EXCEPT ![id] = NoPreferences]
  /\ lastEvent' = "dequeue"
  /\ UNCHANGED <<notServer, srvPeers, lastPass>>

\* connection teardown: the record and the queue entry of the peer go
disconnect(id) ==
  /\ srvPeers[id].registered
  /\ srvPeers' = [srvPeers EXCEPT ![id] = NoRecord]
  /\ matchmakingQueue' = RemoveAll(matchmakingQueue, id)
  /\ peerPreferences' = [peerPreferences EXCEPT ![id] = NoPreferences]
  /\ lastEvent' = "disconnect"
  /\ UNCHANGED <<notServer, lastPass>>

\* runMatchmakingPass(): every queued peer is sent its selected partners; a
\* peer that reached its quota leaves the queue, the others stay queued
runMatchmakingPass ==
  /\ Len(matchmakingQueue) > 0
  /\ \E r \in [ServerPeerIds -> RandomScores] :
     \E sa \in PassSelections("a", r), sb \in PassSelections("b", r),
        sc \in PassSelections("c", r) :
       LET sel == ("a" :> sa) @@ ("b" :> sb) @@ ("c" :> sc)
       IN
       /\ lastPass' = sel
       /\ matchmakingQueue' =
            SelectSeq(matchmakingQueue, LAMBDA A : Cardinality(sel[A]) < Quota(A))
       /\ peerPreferences' =
            [A \in ServerPeerIds |->
               IF InQueue(A) /\ Cardinality(sel[A]) < Quota(A)
               THEN peerPreferences[A] ELSE NoPreferences]
  /\ lastEvent' = "pass"
  /\ UNCHANGED <<notServer, srvPeers>>

InitServer ==
  /\ InitExt(DefaultEnv)
  /\ \E cap \in ServerCaps : InitMore(cap)
  /\ InitNode

NextServer ==
  \/ \E id \in ServerPeerIds : register(id)
  \/ \E id \in ServerPeerIds, preferences \in Preferences : enqueue(id, preferences)
  \/ \E id \in ServerPeerIds : dequeue(id)
  \/ \E id \in ServerPeerIds : disconnect(id)
  \/ runMatchmakingPass

SpecServer == InitServer /\ [][NextServer]_vars

\* ============================================================== claims
\* a call is quiescent when nothing can act on it any more: no pending
\* entry carries its id and none of its timers is armed
Quiescent(r) ==
  /\ r \notin DOMAIN pendingQueries
  /\ \A k \in 1..Len(timers) : timers[k].call # r

\* a response was matched to target i of call r
Answered(r, i) == calls[r].response[i] # "pending"

\* call r was resolved by a message of the given type (or by "timeout")
ResolvedBy(r, type) ==
  \E k \in 1..Len(resolutionLog) : resolutionLog[k] = [id |-> r, by |-> type]

\* C1: whenever a targeted peer answered a knowledge request with entities E
\* before the timeout and no other answer came, the caller's promise is
\* resolved, and its value is exactly E, once the request's timers are spent.
C1_ResolvesWithReceivedEntities ==
  \A r \in 1..Len(calls) :
    \A i \in 1..Len(calls[r].targets) :
      (/\ calls[r].kind = "knowledge"
       /\ Answered(r, i) /\ ResolvedBy(r, "knowledge-response")
       /\ Quiescent(r))
        => /\ Settled(r)
           /\ Returned(r) = Elements(calls[r].response[i])

\* C3: a call whose targeted peers never answer completes: once its timers
\* have fired the caller's promise is resolved (with an empty result), for
\* one, two or more targeted peers with open sockets.
C3_TimeoutCompletesCall ==
  \A r \in 1..Len(calls) :
    (/\ \A i \in 1..Len(calls[r].targets) : ~Answered(r, i)
     /\ \A i, j \in 1..Len(calls[r].targets) :
          i # j => calls[r].targets[i].ws # calls[r].targets[j].ws
     /\ Quiescent(r))
      => /\ Settled(r)
         /\ Returned(r) = <<>>

\* C6: the promise of sendCollaborativeQuery resolves with one
\* {peerId, result} element for each targeted peer whose query-response with
\* a non-error, non-null result was accepted before the timeout, and with
\* nothing for the other peers.
ExpectedResults(r) ==
  LET c == calls[r]
      answered == SelectSeq([i \in 1..Len(c.targets) |-> i],
                            LAMBDA i : Truthy(c.response[i]))
  IN [k \in 1..Len(answered) |->
        [peerId |-> c.targets[answered[k]].peerId, result |-> c.response[answered[k]]]]

C6_QueryResolvesWithResults ==
  \A r \in 1..Len(calls) :
    (calls[r].kind = "query" /\ ~ResolvedBy(r, "knowledge-response") /\ Quiescent(r))
      => /\ Settled(r)
         /\ Returned(r) = ExpectedResults(r)

\* C2: for every requestId / queryId at most one resolution occurs: its
\* pending entry is removed and resolved by a response or by a timer, never
\* by both and never twice.
C2_AtMostOneResolution ==
  \A i, j \in 1..Len(resolutionLog) :
    i # j => resolutionLog[i].id # resolutionLog[j].id

\* C2 witness: a request sent to two peers was resolved by a response and
\* the timer of its other target has fired since
C2_Witness ==
  \E r \in 1..Len(calls) :
    /\ Len(calls[r].targets) = 2
    /\ ResolvedBy(r, "knowledge-response") \/ ResolvedBy(r, "query-response")
    /\ Quiescent(r)

\* C5: a knowledge-response or query-response whose id has no entry in the
\* pending map is discarded: no promise, timer, pending entry or any other
\* part of the node state changes.
C5_UnmatchedResponseDiscarded ==
  [][lastEvent' = "unmatched-response" => UNCHANGED <<nodeVars, resolutionLog>>]_vars

\* C5 witness: a response arrived for an id that was already resolved
C5_Witness ==
  /\ lastEvent = "unmatched-response"
  /\ Len(resolutionLog) > 0
  /\ Len(calls) > 0

\* C4: two knowledge requests outstanding at once whose responses arrive in
\* the opposite order of issue each resolve their own caller with their own
\* entities.
AnsweredBefore(r2, r1) ==
  \E i, j \in 1..Len(resolutionLog) :
    /\ i < j
    /\ resolutionLog[i] = [id |-> r2, by |-> "knowledge-response"]
    /\ resolutionLog[j] = [id |-> r1, by |-> "knowledge-response"]

C4_ConcurrentRequestsIndependent ==
  \A r1, r2 \in 1..Len(calls) :
    (r1 < r2 /\ AnsweredBefore(r2, r1) /\ Quiescent(r1) /\ Quiescent(r2))
      => \A r \in {r1, r2} :
           \A i \in 1..Len(calls[r].targets) :
             Answered(r, i) =>
               /\ Settled(r)
               /\ Returned(r) = Elements(calls[r].response[i])

\* C7: once the handshake exchange has completed on a socket, the link is
\* symmetric: a request the node issues while that socket is its only
\* established open link is sent over it, whichever side opened the socket.
C7_SymmetricLink ==
  \A r \in 1..Len(calls) :
    \A w \in Sockets :
      (linksAtCall[r] = {w} /\ Len(calls[r].categories) > 0)
        => \E m \in sent : m.ws = w /\ m.id = r
                           /\ m.type \in {"knowledge-request", "query"}

\* the new-entity messages C8 is about: the entity lacks a type or a value,
\* or its type maps to a category outside the local share list
Rejected(entity) ==
  \/ entity.type = ""
  \/ entity.value = 0
  \/ entityTypeToCategory(entity.type) \notin shareCategories

\* C8: a new-entity whose type maps to a category that is not shared, or
\* that lacks a type or a value, never changes the knowledge store, the
\* category counts or the per-peer contribution counters.
C8_RejectedEntityLeavesStore ==
  [][(lastEvent' = "new-entity" /\ Rejected(lastEntity')) => UNCHANGED kmVars]_vars

\* C8 witness: a wallet entity (category not shared) was handled by a node
\* whose store already holds records
C8_Witness ==
  /\ lastEvent = "new-entity"
  /\ lastEntity.type = "wallet" /\ lastEntity.value # 0
  /\ <<"token", 1>> \in DOMAIN store

\* what "inserted as-is" stores: the incoming metadata, an entity without
\* metadata being stored with an empty object
AsIs(metadata) == IF metadata.kind = "undefined" THEN Meta("object", {}) ELSE metadata

\* the number of fields of a metadata value (none when it is not an object)
FieldCount(metadata) == IF metadata.kind = "object" THEN Cardinality(metadata.fields) ELSE 0

\* C9: an accepted new-entity is inserted as-is when the store has no record
\* for (type, value); when it has one, the stored metadata changes only to the
\* incoming metadata and only if that has strictly more fields, it does change
\* whenever both are objects and the incoming one has strictly more fields,
\* and the record keeps its id; no other record changes.
C9_MergePolicy ==
  [][(lastEvent' = "new-entity" /\ ~Rejected(lastEntity')) =>
       LET e == lastEntity'
           key == <<e.type, e.value>>
       IN /\ \A k \in DOMAIN store : k # key => (k \in DOMAIN store' /\ store'[k] = store[k])
          /\ key \in DOMAIN store'
          /\ key \notin DOMAIN store => store'[key].metadata = AsIs(e.metadata)
          /\ key \in DOMAIN store =>
               /\ store'[key].id = store[key].id
               /\ store'[key].metadata # store[key].metadata =>
                    /\ FieldCount(e.metadata) > FieldCount(store[key].metadata)
                    /\ store'[key].metadata = e.metadata
               /\ (/\ e.metadata.kind = "object"
                   /\ store[key].metadata.kind = "object"
                   /\ FieldCount(e.metadata) > FieldCount(store[key].metadata))
                    => store'[key].metadata = e.metadata
     ]_vars

\* C9 witness: the record of token 1 was inserted and later replaced by the
\* richer {a:1, b:2} (two tracked contributions for the only shared key)
C9_Witness ==
  /\ lastEvent = "new-entity"
  /\ lastEntity = Entity("token", 1, Meta("object", {<<"a", 1>>, <<"b", 2>>}))
  /\ <<"token", 1>> \in DOMAIN store
  /\ store[<<"token", 1>>].metadata = Meta("object", {<<"a", 1>>, <<"b", 2>>})
  /\ peerExpertise["p1"]["tokens"] + peerExpertise["p2"]["tokens"] >= 2

\* C10: calculateCategoryTrust(peerId, category) is within [0, 1] (0..100
\* hundredths) in every reachable state, for known and unknown peers and
\* categories.
C10_TrustWithinUnitInterval ==
  \A peerId \in PeerIds \cup {"stranger"} :
    \A category \in Categories \cup {"unseen"} :
      /\ calculateCategoryTrust(peerId, category) >= 0
      /\ calculateCategoryTrust(peerId, category) <= 100

\* auto-discovery is enabled in the environment, with a server URL
AutoDiscoveryEnabled ==
  env.HIVE_AUTO_DISCOVERY = "true" /\ env.HIVE_DISCOVERY_SERVER # "unset"

\* the messages sent to the discovery server include register_expertise
\* followed by join_matchmaking
RegisteredThenJoined ==
  \E i, j \in 1..Len(discoverySent) :
    /\ i < j
    /\ discoverySent[i].type = "register_expertise"
    /\ discoverySent[j].type = "join_matchmaking"

\* C11: once initialize has run with auto-discovery enabled and no explicit
\* peer connected, it has started a connection to the discovery server, and
\* once a welcome has been handled register_expertise and then
\* join_matchmaking have been sent.
C11_InitializeUsesDiscovery ==
  (/\ AutoDiscoveryEnabled
   /\ discoveryLog.initialized
   /\ discoveryLog.explicitPeersConnected = 0)
    => /\ discoveryLog.initAttempt
       /\ discoveryLog.welcomes > 0 => RegisteredThenJoined

\* C12: while auto-discovery is enabled, every 30 s timer armed by a drop of
\* the discovery connection (or by a failed attempt) starts a new connection
\* attempt when it fires.
C12_ReconnectsAfterBackoff ==
  AutoDiscoveryEnabled => discoveryLog.retries = discoveryLog.fired

\* C19: the number of peer connections opened in response to peer-match,
\* peer-suggestion and peer_suggestions messages never exceeds maxPeers.
C19_DialsWithinMaxPeers ==
  discoveryLog.dials <= ENV_HIVE_MAX_PEERS(env)

\* C13: handshake handling is idempotent per peerId: after every step the
\* registry holds at most one record per peerId, and a handshake re-sent by
\* an already-registered peer on its socket leaves the registry as it was.
C13_HandshakeIdempotent ==
  [][/\ \A i, j \in 1..Len(peers') : i # j => peers'[i].peerId # peers'[j].peerId
     /\ lastEvent' = "repeated-handshake" =>
          /\ peers' = peers
          /\ peerCategories' = peerCategories]_vars

\* C13 witness: a registered peer re-sent its handshake and the registry
\* holds its single record
C13_Witness ==
  /\ lastEvent = "repeated-handshake"
  /\ budget.handshakes >= 2
  /\ Len(peers) = 1

\* the request messages of the node
RequestTypes == {"knowledge-request", "query"}

\* C14: every knowledge-request / query message sent carries only locally
\* shared categories, all of them among the categories the caller asked for;
\* and a call none of whose categories is shared sends no message, creates
\* no pending entry or timer and returns an empty list.
C14_RequestsCarryOnlySharedCategories ==
  /\ \A m \in sent :
       m.type \in RequestTypes =>
         \A k \in 1..Len(m.categories) :
           /\ m.categories[k] \in shareCategories
           /\ \E j \in 1..Len(requestedAtCall[m.id]) :
                requestedAtCall[m.id][j] = m.categories[k]
  /\ \A r \in 1..Len(calls) :
       (\A j \in 1..Len(requestedAtCall[r]) : requestedAtCall[r][j] \notin shareCategories)
         => /\ ~\E m \in sent : m.type \in RequestTypes /\ m.id = r
            /\ Quiescent(r)
            /\ Settled(r)
            /\ Returned(r) = <<>>

\* C14 witness: a query asked for tokens, wallets and concepts and its
\* message was sent with tokens and concepts only
C14_Witness ==
  \E m \in sent :
    /\ m.type = "query"
    /\ requestedAtCall[m.id] = <<"tokens", "wallets", "concepts">>
    /\ m.categories = <<"tokens", "concepts">>

\* exactly one message was sent by the step, and it is the last of replies'
OneReplySent == 
  /\ Len(replies') = Len(replies) + 1
  /\ SubSeq(replies', 1, Len(replies)) = replies

\* some requested category is in the local share list
AsksShared(data) ==
  /\ data.hasCategories
  /\ \E k \in 1..Len(data.categories) : data.categories[k] \in shareCategories

\* C15: every knowledge-request handled is answered by exactly one
\* knowledge-response on the same socket with the same requestId, whose
\* entities all belong to requested categories of the local share list; when
\* no requested category is shared or the lookup fails, entities is empty;
\* the socket stays open and the registry is unchanged.
C15_KnowledgeRequestAnswered ==
  [][lastEvent' = "knowledge-request" =>
       LET data == lastRequest'
           answer == replies'[Len(replies')]
       IN /\ OneReplySent
          /\ answer.type = "knowledge-response"
          /\ answer.ws = data.ws
          /\ answer.id = data.id
          /\ \A key \in answer.entities :
               /\ key \in DOMAIN store
               /\ entityTypeToCategory(key[1]) \in shareCategories
               /\ \E k \in 1..Len(data.categories) :
                    data.categories[k] = entityTypeToCategory(key[1])
          /\ (~AsksShared(data) \/ data.outcome = "throws") => answer.entities = {}
          /\ (AsksShared(data) /\ data.outcome = "throws") => answer.error # "none"
          /\ readyState' = readyState
          /\ peers' = peers
     ]_vars

\* C15 witness: a request for tokens and wallets was answered from a store
\* that holds a token and a wallet
C15_Witness ==
  /\ lastEvent = "knowledge-request"
  /\ lastRequest.categories = <<"tokens", "wallets">>
  /\ {<<"token", 1>>, <<"wallet", 1>>} \subseteq DOMAIN store
  /\ replies[Len(replies)].entities = {<<"token", 1>>}

\* C16: when processQuery throws while a query is handled, exactly one
\* query-response with the same queryId and an error field is sent on the
\* same socket; the socket stays open and the registry and the pending map
\* do not change.
C16_ThrowingQueryAnswered ==
  [][(lastEvent' = "query" /\ AsksShared(lastRequest') /\ lastRequest'.outcome = "throws") =>
       LET data == lastRequest'
           answer == replies'[Len(replies')]
       IN /\ OneReplySent
          /\ answer.type = "query-response"
          /\ answer.ws = data.ws
          /\ answer.id = data.id
          /\ answer.error # "none"
          /\ readyState' = readyState
          /\ peers' = peers
          /\ pendingQueries' = pendingQueries
     ]_vars

\* C16 witness: a query whose processing threw was answered with an error
C16_Witness ==
  /\ lastEvent = "query"
  /\ lastRequest.outcome = "throws"
  /\ AsksShared(lastRequest)
  /\ replies[Len(replies)].error = "Failed to process query"

\* the new-entity messages of the n-th shareEntity call
MessagesOf(n) == {m \in shared : m.n = n}

\* C17: shareEntity returns the number of new-entity messages it sent, none
\* of them on a socket whose send failed, and a failed send does not stop the
\* loop: every registry entry with an open socket whose send did not fail
\* got the message.
C17_ShareCountsSuccessfulSends ==
  \A n \in 1..Len(shareCalls) :
    LET c == shareCalls[n]
    IN /\ c.returned = Cardinality(MessagesOf(n))
       /\ \A m \in MessagesOf(n) : m.ws \notin c.failing /\ m.entity = c.entity
       /\ entityTypeToCategory(c.entity.type) \in shareCategories =>
            \A i \in 1..Len(c.peers) :
              (c.peers[i].ws \in c.open /\ c.peers[i].ws \notin c.failing)
                => SharedMsg(n, c.peers[i], c.entity) \in shared

\* C17 witness: of two registered peers with open sockets, the send to the
\* first failed and the second was notified and counted
C17_Witness ==
  \E n \in 1..Len(shareCalls) :
    LET c == shareCalls[n]
    IN /\ Len(c.peers) = 2
       /\ c.peers[1].ws \in c.open /\ c.peers[1].ws \in c.failing
       /\ c.peers[2].ws \in c.open /\ c.peers[2].ws \notin c.failing
       /\ c.returned = 1

\* C18: a new-entity message is sent to a registered peer only if the
\* shareCategories that peer announced in its handshake include the
\* category of the entity.
C18_ShareRespectsPeerPolicy ==
  \A m \in shared : entityTypeToCategory(m.entity.type) \in ShareOf(m.peerId)

\* C20: when start() runs on a stopped manager, every enabled task that has
\* a registered function is scheduled (has its interval) when start() is
\* over, whichever task bodies failed on their first run; a scheduled task
\* runs again at its next interval.
C20_StartSchedulesEveryTask ==
  [][lastEvent' = "start" =>
       \A i \in 1..Len(TaskNames) :
         (TaskEnabled(TaskNames[i]) /\ tasks[TaskNames[i]] # "absent")
           => TaskNames[i] \in taskIntervals'
     ]_vars

ObservedCount(id, category) ==
  IF peerCategories[id] = "unset" THEN 0 ELSE ProfileCount(peerCategories[id], category)

\* the step is a requestKnowledge call that got past the two early returns
SelectsTargets ==
  /\ Len(calls') = Len(calls) + 1
  /\ calls'[Len(calls')].kind = "knowledge"
  /\ Len(peers) > 0
  /\ Len(AllowedCategories(requestedAtCall'[Len(calls')])) > 0

NoPositiveCount(allowed) ==
  \A i \in 1..Len(peers), k \in 1..Len(allowed) :
    ObservedCount(peers[i].peerId, allowed[k]) <= 0

\* C22: when no connected peer has a positive count in any requested
\* category, requestKnowledge targets one connected peer if
\* HIVE_PREFER_RANDOM is set, and all connected peers otherwise
C22_FallbackRandomOrBroadcast ==
  [][(SelectsTargets /\ NoPositiveCount(AllowedCategories(requestedAtCall'[Len(calls')])))
       => LET targets == calls'[Len(calls')].targets
          IN IF env.HIVE_PREFER_RANDOM = "true"
             THEN Len(targets) = 1 /\ \E i \in 1..Len(peers) : peers[i] = targets[1]
             ELSE targets = peers
    ]_vars

\* C23: for every allowed category the targets of requestKnowledge hold a
\* registered peer whose observed count is maximal among the registered
\* peers, and every target is an entry of the registry
C23_TargetsHoldBestPeers ==
  [][SelectsTargets
       => LET targets == calls'[Len(calls')].targets
              allowed == AllowedCategories(requestedAtCall'[Len(calls')])
          IN /\ \A k \in 1..Len(allowed) :
                  \E t \in 1..Len(targets) :
                    /\ PeersHas(targets[t].peerId)
                    /\ \A i \in 1..Len(peers) :
                         ObservedCount(targets[t].peerId, allowed[k])
                           >= ObservedCount(peers[i].peerId, allowed[k])
             /\ \A t \in 1..Len(targets) : \E i \in 1..Len(peers) : peers[i] = targets[t]
    ]_vars

\* a requestKnowledge call made with two registered peers whose counts
\* differ chose the second peer of the registry alone
C23_Witness ==
  /\ Len(calls) = 1
  /\ calls[1].kind = "knowledge"
  /\ Len(peers) = 2
  /\ Len(calls[1].targets) = 1
  /\ calls[1].targets[1] = peers[2]
  /\ \E c \in shareCategories :
       ObservedCount(peers[2].peerId, c) > ObservedCount(peers[1].peerId, c)

\* C24: an entry peerId -> channel leaves the registry only in the step in
\* which that same channel closes; the close of another channel that once
\* handshook with the peerId leaves it in place
C24_EntryRemovedOnlyByOwnClose ==
  [][\A i \in 1..Len(peers) :
       (\A j \in 1..Len(peers') : peers'[j].peerId # peers[i].peerId)
         => /\ readyState[peers[i].ws] = "OPEN"
            /\ readyState'[peers[i].ws] = "CLOSED"
    ]_vars

\* C25: a pending entry always has an armed timer of its request (so when
\* all timers of a request have fired or been cancelled no entry is left),
\* and every pending entry is eventually removed
C25_PendingEntriesRemoved ==
  /\ [](\A id \in DOMAIN pendingQueries : \E i \in 1..Len(timers) : timers[i].call = id)
  /\ \A id \in ResponseIds : (id \in DOMAIN pendingQueries) ~> (id \notin DOMAIN pendingQueries)

\* a request sent to two peers lost its entry to the first timer while the
\* second timer was still armed, and later that timer fired too
C25_Witness ==
  /\ Len(calls) = 1
  /\ Len(calls[1].targets) = 2
  /\ Len(resolutionLog) = 1
  /\ resolutionLog[1].by = "timeout"
  /\ timers = <<>>
  /\ pendingQueries = <<>>

\* C26: the category counts carried by every handshake, handshake-ack and
\* join_matchmaking message equal the counts at startup
C26_ProfileImmutable ==
  /\ \A m \in sent :
       m.type \in {"handshake", "handshake-ack"} => m.profile = builtProfile
  /\ \A i \in 1..Len(discoverySent) :
       discoverySent[i].type = "join_matchmaking" => discoverySent[i].profile = builtProfile

\* the step sends a join_matchmaking message
SendsJoin ==
  /\ Len(discoverySent') = Len(discoverySent) + 1
  /\ discoverySent'[Len(discoverySent')].type = "join_matchmaking"

\* C30: join_matchmaking is sent only with a discovery connection and the
\* flag clear, the send sets the flag, and the flag is cleared only by a
\* leave_matchmaking or a matchmaking_status message: at most one join
\* between two clearings
C30_JoinOnlyWhenNotQueued ==
  [][/\ SendsJoin => (discoveryServer # NULL /\ ~inMatchmakingQueue /\ inMatchmakingQueue')
     /\ (inMatchmakingQueue /\ ~inMatchmakingQueue') =>
          \/ /\ Len(discoverySent') = Len(discoverySent) + 1
             /\ discoverySent'[Len(discoverySent')].type = "leave_matchmaking"
          \/ /\ discoverySent' = discoverySent
             /\ discoveryServer = "OPEN"
             /\ discoveryServer' = "OPEN"
    ]_vars

\* the node joined, left and joined again: the second join_matchmaking was
\* sent only after leave_matchmaking had cleared the flag
C30_Witness ==
  /\ Len(discoverySent) = 3
  /\ discoverySent[1].type = "join_matchmaking"
  /\ discoverySent[2].type = "leave_matchmaking"
  /\ discoverySent[3].type = "join_matchmaking"
  /\ inMatchmakingQueue
  /\ lastEvent = "joinMatchmakingQueue"

\* C28: a message that cannot be parsed or whose type is not recognized
\* changes neither the registry, the observed profiles, the pending map nor
\* the store, and leaves every socket as it was
C28_BadMessageDropped ==
  [][lastEvent' = "dropped" =>
       UNCHANGED <<peers, peerCategories, pendingQueries, store, readyState>>
    ]_vars

\* a message was dropped on a node with a registered peer, a pending
\* request and a stored entity, and the sockets are still open
C28_Witness ==
  /\ lastEvent = "dropped"
  /\ Len(peers) > 0
  /\ DOMAIN pendingQueries # {}
  /\ DOMAIN store # {}
  /\ \A w \in Sockets : readyState[w] = "OPEN"

\* what C29 calls accepted or updating: the entity passes the share filter
\* and either has no record yet or wins the merge against the stored one
Counted(entity) ==
  /\ ~Rejected(entity)
  /\ LET key == <<entity.type, entity.value>>
     IN \/ key \notin DOMAIN store
        \/ /\ key \in DOMAIN store
           /\ entity.metadata.kind = "object"
           /\ store[key].metadata.kind = "object"
           /\ FieldCount(entity.metadata) > FieldCount(store[key].metadata)

\* C29 as stated: an accepted or updating new-entity adds exactly one to the
\* counter of (source peer, category of the entity) and changes no other
\* counter; a rejected or losing new-entity changes no counter.
C29_CounterIncrementsByOne ==
  [][\A sourceId \in PeerIds :
       (lastEvent' = "new-entity" /\ handleNewEntity(lastEntity', sourceId)) =>
         IF Counted(lastEntity')
         THEN peerExpertise' =
                [peerExpertise EXCEPT
                   ![sourceId][entityTypeToCategory(lastEntity'.type)] = @ + 1]
         ELSE UNCHANGED peerExpertise
     ]_vars

\* C29: an accepted or updating new-entity adds one to the counter of
\* (source peer, category of the entity) while that counter is below 20 and
\* leaves it at 20 once it is there, no other counter changes; a rejected
\* or losing new-entity changes no counter.
C29_CounterIncrementsUpToCap ==
  [][\A sourceId \in PeerIds :
       (lastEvent' = "new-entity" /\ handleNewEntity(lastEntity', sourceId)) =>
         IF Counted(lastEntity')
         THEN peerExpertise' =
                [peerExpertise EXCEPT
                   ![sourceId][entityTypeToCategory(lastEntity'.type)] =
                      IF @ < ExpertiseCap THEN @ + 1 ELSE @]
         ELSE UNCHANGED peerExpertise
     ]_vars

\* C29 witness: p1 alone supplied more than 20 token records, the last one
\* was inserted when its counter already stood at 20
C29_Witness ==
  /\ lastEvent = "new-entity"
  /\ lastEntity = Entity("token", ExpertiseCap + 1, Meta("object", {}))
  /\ Cardinality(DOMAIN store) = ExpertiseCap + 1
  /\ peerExpertise["p1"]["tokens"] = ExpertiseCap
  /\ peerExpertise["p2"]["tokens"] = 0

\* what holds of every connectToPeer promise and of the value
\* connectToKnownPeers returns
ConnectOutcomes ==
  /\ \A w \in Sockets :
       /\ connectPromise[w] \in {"none", "pending", "true", "false"}
       /\ connectPromise[w] = "true" <=> (wsDir[w] = "out" /\ Opened(w))
       /\ connectPromise[w] = "false" => (readyState[w] = "CLOSED" /\ ~Opened(w))
       /\ connectPromise[w] = "pending" => (readyState[w] = "CONNECTING" /\ connectTimer[w])
       /\ (wsDir[w] = "out" /\ ~connectTimer[w]) => connectPromise[w] \in {"true", "false"}
  /\ known.pc = "returned" =>
       known.connectedCount =
         Cardinality({w \in known.dialed : connectPromise[w] = "true"})

\* C27: a connectToPeer promise is never rejected and is always settled:
\* with true exactly when the socket opened, with false after a connection
\* error or when the 5 s timer finds the socket not open; every pending
\* promise is eventually settled, and connectToKnownPeers eventually returns,
\* with the number of dialed addresses whose promise resolved true.
C27_ConnectAlwaysResolves ==
  /\ []ConnectOutcomes
  /\ \A w \in Sockets :
       (connectPromise[w] = "pending") ~> (connectPromise[w] \in {"true", "false"})
  /\ (known.pc = "awaiting") ~> (known.pc = "returned")

\* C27 witness: connectToKnownPeers returned 1 after dialing two addresses,
\* one socket opened and the other was still not open when its timer fired
C27_Witness ==
  /\ known.pc = "returned"
  /\ known.connectedCount = 1
  /\ Cardinality(known.dialed) = 2
  /\ \E w \in known.dialed :
       connectPromise[w] = "false" /\ ~connectTimer[w] /\ readyState[w] = "CLOSED"
  /\ \E w \in known.dialed : connectPromise[w] = "true" /\ connectTimer[w]

\* C31: a timeout timer removes only the pending entry registered together
\* with it: whenever the timer of target idx of a call fires and a pending
\* entry disappears, that entry is the one of the same call and target.
C31_TimerRemovesOwnEntry ==
  [][(Len(timers) > 0 /\ timers' = Tail(timers) /\ pendingQueries' # pendingQueries) =>
       \A k \in DOMAIN pendingQueries \ DOMAIN pendingQueries' :
         /\ pendingQueries[k].call = Head(timers).call
         /\ pendingQueries[k].idx = Head(timers).idx
     ]_vars

\* C32: a knowledge-response never resolves or removes a pending
\* collaborative query, and a query-response never resolves or removes a
\* pending knowledge request, whatever id the message carries: every entry
\* taken out of the pending map by a response belongs to a call of the kind
\* that response answers.
C32_ResponseMatchesKind ==
  [][(Len(resolutionLog') = Len(resolutionLog) + 1) =>
       LET e == resolutionLog'[Len(resolutionLog')]
       IN /\ e.by = "knowledge-response" => calls[pendingQueries[e.id].call].kind = "knowledge"
          /\ e.by = "query-response" => calls[pendingQueries[e.id].call].kind = "query"
     ]_vars

\* C33: under any interleaving of overlapping new-entity handlers, the
\* number of metadata fields of a stored record never decreases.
C33_FieldCountNeverDecreases ==
  [][\A k \in DOMAIN store :
       k \in DOMAIN store' /\ FieldCount(store'[k].metadata) >= FieldCount(store[k].metadata)
     ]_vars

\* the records of a category held by the store
RecordsOf(c) == {k \in DOMAIN store : entityTypeToCategory(k[1]) = c}

\* C34: once no new-entity handler is in progress, the increase of
\* entityCountByCategory[c] since startup (where it is 0, on an empty store)
\* equals the number of distinct (type, value) records of category c.
C34_CountMatchesStore ==
  inflight = {} =>
    \A c \in Categories : entityCountByCategory[c] = Cardinality(RecordsOf(c))

\* C36: inMatchmakingQueue is never true while no discovery connection
\* exists (so that the welcome of the next connection is answered with
\* register_expertise and join_matchmaking again).
C36_QueuedOnlyWhileConnected ==
  inMatchmakingQueue => discoveryServer # NULL

\* C35: when close() returns the registry is empty and the discovery
\* connection is null, and from then on the node starts no connection: no
\* socket to a peer is created and no discovery connection is attempted.
C35_CloseIsFinal ==
  [][/\ lastEvent' = "close" => (peers' = <<>> /\ discoveryServer' = NULL)
     /\ closed =>
          /\ \A w \in Sockets : readyState[w] = "NONE" => readyState'[w] # "CONNECTING"
          /\ discoveryServer = NULL => discoveryServer' = NULL
    ]_vars

\* C37: the connection registry never contains an entry whose peerId is the
\* node's own clientId.
C37_NeverRegistersItself ==
  ~PeersHas(clientId)

\* C38: the registry never keeps a closed channel: no registry entry maps
\* to a socket whose close event has been handled.
C38_NoClosedChannelRegistered ==
  \A i \in 1..Len(peers) : readyState[peers[i].ws] # "CLOSED"

\* C39: when stop() returns, running is false, taskIntervals is empty and
\* no setInterval timer of any task is left armed (so no background task
\* fires until a later start).
C39_StopStopsEveryTask ==
  [][lastEvent' = "stop" =>
       /\ running' = FALSE
       /\ taskIntervals' = {}
       /\ \A n \in DOMAIN intervalTimers' : intervalTimers'[n] = 0
    ]_vars

====
